---------------------------- MODULE Spec2Model ----------------------------
(***************************************************************************)
(* A model of the Azure Storage Assessment Toolkit: the orchestrator of    *)
(* assess_storage.py (enumeration, the worker pool of _process_parallel,   *)
(* the collection loop, analyze_results, generate_reports, run and main)   *)
(* and the analyzers it calls (SecurityAnalyzer, GovernanceAnalyzer,       *)
(* CostAnalyzer).                                                          *)
(*                                                                         *)
(* Conventions.                                                            *)
(*  - A Python value that may be True, False or None (a getattr(...,None)  *)
(*    of the collector) is one of the strings "True", "False", "None".     *)
(*  - A dict the collector may leave empty ({}) is a record with a         *)
(*    `present` field; the accessors below give what .get(key, default)    *)
(*    gives on it.                                                         *)
(*  - Byte counts are counted in units of which GiB make one gigabyte      *)
(*    (the code's 1024 ** 3), prices in 1e-5 USD per gigabyte, and a       *)
(*    monthly cost is kept as  units * price,  that is in 1e-5 USD / GiB:  *)
(*    all arithmetic is exact integer arithmetic.                          *)
(***************************************************************************)
EXTENDS Integers, Sequences, FiniteSets, TLC

VARIABLES
    config,       \* Config.data after main() applied the command line
    pc,           \* position of the main thread in main()/run()
    enumeration,  \* history: how collect_all ended ("pending", "ok" or the call that raised)
    accounts,     \* storage_accounts returned by collect_all
    task,         \* per account index: state of its _process_storage_account task
    queue,        \* the executor's work queue (FIFO of account indexes)
    nThreads,     \* worker threads the executor has started
    poolSize,     \* max_workers the executor was built with
    pending,      \* finished futures as_completed has not yet yielded
    results,      \* self.results['storage_accounts']
    summary,      \* self.results['summary']
    reports,      \* generated_files of generate_reports
    exitStatus,   \* status main() passes to sys.exit ("none" while running)
    interrupted,  \* a KeyboardInterrupt has been raised in the main thread
    startedAfterInterrupt, \* history: tasks started after the interrupt
    cost_workload_profile, \* self.cost_analyzer.workload_profile
    detection,    \* history: input and result of the workload-profile detection
    call,         \* pure-function specifications: the call being made
    ret           \* pure-function specifications: its result

orchVars == <<config, pc, enumeration, accounts, task, queue, nThreads, poolSize, pending,
              results, summary, reports, exitStatus, interrupted,
              startedAfterInterrupt, cost_workload_profile, detection>>
callVars == <<call, ret>>
vars == <<config, pc, enumeration, accounts, task, queue, nThreads, poolSize, pending,
          results, summary, reports, exitStatus, interrupted,
          startedAfterInterrupt, cost_workload_profile, detection, call, ret>>

(***************************************************************************)
(* Sequence helpers                                                        *)
(***************************************************************************)
RECURSIVE Flatten(_)
Flatten(ss) == IF ss = <<>> THEN <<>> ELSE Head(ss) \o Flatten(Tail(ss))

RECURSIVE SumSeq(_)
SumSeq(s) == IF s = <<>> THEN 0 ELSE Head(s) + SumSeq(Tail(s))

Range(s) == {s[i] : i \in 1..Len(s)}

Max(a, b) == IF a >= b THEN a ELSE b

Take(s, n) == SubSeq(s, 1, IF Len(s) < n THEN Len(s) ELSE n)

\* Python's `indicator in chars` on strings, spelled as character sequences
Contains(chars, indicator) ==
    \E i \in 0..(Len(chars) - Len(indicator)) :
        SubSeq(chars, i + 1, i + Len(indicator)) = indicator

CountIf(s, Test(_)) == Cardinality({i \in 1..Len(s) : Test(s[i])})

(***************************************************************************)
(* Findings                                                                *)
(***************************************************************************)
Severities == {"critical", "high", "medium", "low", "info"}

\* A finding dict: 'finding' stands for the human-readable text (one token per
\* distinct message) and 'detail' for the names a message lists.
FindingD(type, severity, resource, text, detail) ==
    [type |-> type, severity |-> severity, resource |-> resource,
     finding |-> text, detail |-> detail]

Finding(type, severity, resource, text) ==
    FindingD(type, severity, resource, text, <<>>)

BySeverity(findings, sev) == SelectSeq(findings, LAMBDA f : f.severity = sev)

\* blob_service_properties.get(key, {}).get('enabled', False), as a truth value
BlobProp(acct, key) ==
    acct.blob_service_properties.present /\ acct.blob_service_properties[key] = "True"

(***************************************************************************)
(* SecurityAnalyzer                                                        *)
(***************************************************************************)
analyze_public_access(acct) ==
    IF acct.allow_blob_public_access = "True"
    THEN <<Finding("public_access", "high", acct.name, "public_access_enabled")>>
    ELSE <<>>

EncryptionServices == <<"blob", "file", "queue", "table">>

analyze_encryption(acct) ==
    (IF acct.https_only # "True"
     THEN <<Finding("encryption_in_transit", "high", acct.name, "https_not_enforced")>>
     ELSE <<>>)
    \o
    (IF acct.min_tls_version # "None" /\ acct.min_tls_version \notin {"TLS1_2", "TLS1_3"}
     THEN <<Finding("tls_version", "medium", acct.name, "min_tls_below_1_2")>>
     ELSE <<>>)
    \o
    Flatten([i \in 1..Len(EncryptionServices) |->
        IF acct.encryption_services[EncryptionServices[i]] # "True"
        THEN <<Finding("encryption_at_rest", "high", acct.name,
                       EncryptionServices[i] \o "_encryption_not_enabled")>>
        ELSE <<>>])
    \o
    (IF acct.encryption_key_source = "Microsoft.Storage"
     THEN <<Finding("encryption_key_management", "info", acct.name, "microsoft_managed_keys")>>
     ELSE <<>>)

\* ip_range.startswith('0.0.0.0') or ip_range == '*', over the addresses of IpValues
IsBroadIpRange(ip) == ip \in {"0.0.0.0", "0.0.0.0/0", "*"}

analyze_network_access(acct) ==
    LET rules == acct.network_rule_set
        default_action == IF rules.present THEN rules.default_action ELSE "None"
        ip_rules == IF rules.present THEN rules.ip_rules ELSE <<>>
        vnet_rules == IF rules.present THEN rules.virtual_network_rules ELSE 0
    IN  (IF default_action = "Allow"
         THEN <<Finding("network_access", "high", acct.name, "allows_all_networks")>>
         ELSE <<>>)
        \o
        Flatten([i \in 1..Len(ip_rules) |->
            IF IsBroadIpRange(ip_rules[i])
            THEN <<Finding("network_access", "high", acct.name,
                           "permissive_ip_rule_" \o ip_rules[i])>>
            ELSE <<>>])
        \o
        (IF vnet_rules = 0 /\ default_action = "Deny"
         THEN <<Finding("network_access", "info", acct.name, "no_vnet_rules")>>
         ELSE <<>>)

analyze_authentication(acct) ==
    (IF acct.allow_shared_key_access # "False"
     THEN <<Finding("authentication", "medium", acct.name, "shared_key_enabled")>>
     ELSE <<>>)
    \o
    (IF acct.default_to_oauth_authentication # "True"
     THEN <<Finding("authentication", "info", acct.name, "oauth_not_default")>>
     ELSE <<>>)

\* the container check reading the blob policy
analyze_data_protection_OnePolicy(acct) ==
    (IF ~BlobProp(acct, "delete_retention_policy")
     THEN <<Finding("data_protection", "medium", acct.name, "blob_soft_delete_disabled"),
            Finding("data_protection", "medium", acct.name, "container_soft_delete_disabled")>>
     ELSE <<>>)
    \o
    (IF ~BlobProp(acct, "is_versioning_enabled")
     THEN <<Finding("data_protection", "low", acct.name, "versioning_disabled")>>
     ELSE <<>>)
    \o
    (IF ~BlobProp(acct, "change_feed")
     THEN <<Finding("data_protection", "info", acct.name, "change_feed_disabled")>>
     ELSE <<>>)

analyze_data_protection(acct) ==
    (IF ~BlobProp(acct, "delete_retention_policy")
     THEN <<Finding("data_protection", "medium", acct.name, "blob_soft_delete_disabled")>>
     ELSE <<>>)
    \o
    (IF ~BlobProp(acct, "container_delete_retention_policy")
     THEN <<Finding("data_protection", "medium", acct.name, "container_soft_delete_disabled")>>
     ELSE <<>>)
    \o
    (IF ~BlobProp(acct, "is_versioning_enabled")
     THEN <<Finding("data_protection", "low", acct.name, "versioning_disabled")>>
     ELSE <<>>)
    \o
    (IF ~BlobProp(acct, "change_feed")
     THEN <<Finding("data_protection", "info", acct.name, "change_feed_disabled")>>
     ELSE <<>>)

CriticalPenalty == 25
HighPenalty == 15
MediumPenalty == 5
FullScore == 100

\* the "Simple scoring" block of analyze_storage_account_security
FloorAtZero(score) == Max(0, score)

SecurityScoreNoFloor(by) ==
    FullScore - Len(by.critical) * CriticalPenalty - Len(by.high) * HighPenalty
              - Len(by.medium) * MediumPenalty

SecurityScore(by) ==
    FloorAtZero(FullScore - Len(by.critical) * CriticalPenalty
                - Len(by.high) * HighPenalty - Len(by.medium) * MediumPenalty)

analyze_storage_account_security(acct, cfg) ==
    LET sc == cfg.security
        all_findings ==
            (IF sc.check_public_access THEN analyze_public_access(acct) ELSE <<>>)
            \o (IF sc.check_encryption THEN analyze_encryption(acct) ELSE <<>>)
            \o (IF sc.check_network_rules THEN analyze_network_access(acct) ELSE <<>>)
            \o (IF sc.check_auth_methods THEN analyze_authentication(acct) ELSE <<>>)
            \o (IF sc.check_soft_delete \/ sc.check_versioning
                THEN analyze_data_protection(acct) ELSE <<>>)
        by == [s \in Severities |-> BySeverity(all_findings, s)]
    IN  [storage_account |-> acct.name,
         security_score |-> SecurityScore(by),
         total_findings |-> Len(all_findings),
         findings_by_severity |-> by,
         all_findings |-> all_findings]

(***************************************************************************)
(* GovernanceAnalyzer                                                      *)
(***************************************************************************)
\* the SKU names of the service, character by character
SkuSpelling ==
    {<<"Standard_LRS", <<"S", "t", "a", "n", "d", "a", "r", "d", "_", "L", "R", "S">>>>,
     <<"Standard_GRS", <<"S", "t", "a", "n", "d", "a", "r", "d", "_", "G", "R", "S">>>>,
     <<"Standard_RAGRS", <<"S", "t", "a", "n", "d", "a", "r", "d", "_", "R", "A", "G", "R", "S">>>>,
     <<"Standard_ZRS", <<"S", "t", "a", "n", "d", "a", "r", "d", "_", "Z", "R", "S">>>>,
     <<"Standard_GZRS", <<"S", "t", "a", "n", "d", "a", "r", "d", "_", "G", "Z", "R", "S">>>>,
     <<"Standard_RAGZRS", <<"S", "t", "a", "n", "d", "a", "r", "d", "_", "R", "A", "G", "Z", "R", "S">>>>,
     <<"Premium_LRS", <<"P", "r", "e", "m", "i", "u", "m", "_", "L", "R", "S">>>>,
     <<"Premium_ZRS", <<"P", "r", "e", "m", "i", "u", "m", "_", "Z", "R", "S">>>>}

SkuNamePool == {s[1] : s \in SkuSpelling}

SkuChars(sku) == (CHOOSE s \in SkuSpelling : s[1] = sku)[2]

\* 'LRS' in sku
SkusContainingLRS ==
    {sku \in SkuNamePool : Contains(SkuChars(sku), <<"L", "R", "S">>)}

\* 'GRS' in sku or 'RAGRS' in sku
SkusContainingGRS ==
    {sku \in SkuNamePool : \/ Contains(SkuChars(sku), <<"G", "R", "S">>)
                           \/ Contains(SkuChars(sku), <<"R", "A", "G", "R", "S">>)}

TagKeys(tags) == [i \in 1..Len(tags) |-> tags[i].key]

analyze_tagging(acct, required_tags) ==
    IF required_tags = <<>> THEN <<>>
    ELSE
      LET present == Range(TagKeys(acct.tags))
          missing_tags == SelectSeq(required_tags, LAMBDA t : t \notin present)
          empty_tags == TagKeys(SelectSeq(acct.tags, LAMBDA kv : kv.value = ""))
      IN  (IF missing_tags # <<>>
           THEN <<FindingD("tagging", "medium", acct.name, "missing_required_tags", missing_tags)>>
           ELSE <<>>)
          \o
          (IF empty_tags # <<>>
           THEN <<FindingD("tagging", "low", acct.name, "tags_with_empty_values", empty_tags)>>
           ELSE <<>>)

\* validate_naming_convention(name, pattern) is the account's name_matches flag
analyze_naming_convention(acct, naming_pattern) ==
    IF naming_pattern = "None" THEN <<>>
    ELSE IF ~acct.name_matches
         THEN <<Finding("naming_convention", "low", acct.name, "name_does_not_match_pattern")>>
         ELSE <<>>

analyze_lifecycle_management(acct) ==
    IF ~BlobProp(acct, "restore_policy")
    THEN <<Finding("lifecycle_management", "info", acct.name, "lifecycle_policies_not_detected")>>
    ELSE <<>>

analyze_diagnostics(acct) ==
    IF ~BlobProp(acct, "last_access_time_tracking_policy")
    THEN <<Finding("diagnostics", "info", acct.name, "last_access_tracking_disabled")>>
    ELSE <<>>

\* 'LRS' in sku raises TypeError when the snapshot's sku is None
RedundancyRaises(acct) == acct.sku = "None"

analyze_redundancy(acct) ==
    (IF acct.sku \in SkusContainingLRS
     THEN <<Finding("redundancy", "info", acct.name, "using_lrs")>>
     ELSE <<>>)
    \o
    (IF acct.sku \in SkusContainingGRS /\ acct.secondary_location = "None"
     THEN <<Finding("redundancy", "medium", acct.name, "no_secondary_location")>>
     ELSE <<>>)

MaxListedEmptyContainers == 5

analyze_orphaned_resources(acct, containers, metrics) ==
    LET total_blobs == SumSeq([i \in 1..Len(containers) |-> containers[i].blob_count])
        has_activity == metrics.present /\ metrics.has_activity = "True"
        empty_containers == SelectSeq(containers, LAMBDA c : c.blob_count = 0)
    IN  (IF total_blobs = 0
         THEN <<Finding("orphaned_resource", "low", acct.name, "contains_no_blobs")>>
         ELSE <<>>)
        \o
        (IF ~has_activity /\ total_blobs > 0
         THEN <<Finding("orphaned_resource", "low", acct.name, "no_transaction_activity")>>
         ELSE <<>>)
        \o
        (IF empty_containers # <<>>
         THEN <<FindingD("orphaned_resource", "info", acct.name, "empty_containers_found",
                         [i \in 1..Len(Take(empty_containers, MaxListedEmptyContainers)) |->
                             empty_containers[i].name])>>
         ELSE <<>>)

analyze_governance(acct, containers, metrics, cfg) ==
    LET gc == cfg.governance
        all_findings ==
            analyze_tagging(acct, gc.required_tags)
            \o analyze_naming_convention(acct, gc.naming_pattern)
            \o (IF gc.check_lifecycle_policies THEN analyze_lifecycle_management(acct) ELSE <<>>)
            \o (IF gc.check_diagnostics THEN analyze_diagnostics(acct) ELSE <<>>)
            \o analyze_redundancy(acct)
            \o analyze_orphaned_resources(acct, containers, metrics)
    IN  [storage_account |-> acct.name,
         total_findings |-> Len(all_findings),
         findings_by_severity |-> [s \in Severities |-> BySeverity(all_findings, s)],
         all_findings |-> all_findings]

(***************************************************************************)
(* CostAnalyzer                                                            *)
(***************************************************************************)
\* bytes in one gigabyte (the code's 1024 ** 3), scaled down for the model
GiB == 4

\* PRICING, in 1e-5 USD per gigabyte and month
PRICING ==
    [Hot |-> [Standard_LRS |-> 1840, Standard_GRS |-> 3680, Standard_RAGRS |-> 4600,
              Standard_ZRS |-> 2210, Standard_GZRS |-> 4550, Standard_RAGZRS |-> 5525],
     Cool |-> [Standard_LRS |-> 1000, Standard_GRS |-> 2000, Standard_RAGRS |-> 2500,
               Standard_ZRS |-> 1200, Standard_GZRS |-> 2500, Standard_RAGZRS |-> 3125],
     Archive |-> [Standard_LRS |-> 99, Standard_GRS |-> 198, Standard_RAGRS |-> 198]]

\* FILE_SHARE_PRICING, in 1e-5 USD per gigabyte and month
FILE_SHARE_PRICING ==
    [light |-> [Standard_LRS |-> 10000, Standard_GRS |-> 18000, Standard_ZRS |-> 12000,
                Standard_GZRS |-> 22000, Premium_LRS |-> 20000, Premium_ZRS |-> 24000],
     moderate |-> [Standard_LRS |-> 20000, Standard_GRS |-> 35000, Standard_ZRS |-> 25000,
                   Standard_GZRS |-> 45000, Premium_LRS |-> 20000, Premium_ZRS |-> 24000],
     heavy |-> [Standard_LRS |-> 48000, Standard_GRS |-> 75000, Standard_ZRS |-> 55000,
                Standard_GZRS |-> 85000, Premium_LRS |-> 20000, Premium_ZRS |-> 24000]]

\* the price lookup without the reset of an unknown SKU to Standard_LRS
estimate_storage_cost_HotDefault(size_bytes, access_tier, sku, workload_profile) ==
    IF size_bytes = 0 THEN 0
    ELSE IF access_tier = "FileShares"
    THEN LET profile == IF workload_profile \in DOMAIN FILE_SHARE_PRICING
                        THEN workload_profile ELSE "moderate"
             pricing_table == FILE_SHARE_PRICING[profile]
         IN  size_bytes * (IF sku \in DOMAIN pricing_table THEN pricing_table[sku] ELSE 20000)
    ELSE LET tier == IF access_tier \in DOMAIN PRICING THEN access_tier ELSE "Hot"
         IN  size_bytes * (IF sku \in DOMAIN PRICING[tier] THEN PRICING[tier][sku] ELSE 1840)

\* monthly cost of size_bytes, as  size_bytes * price  (divide by GiB for 1e-5 USD)
estimate_storage_cost(size_bytes, access_tier, sku, workload_profile) ==
    IF size_bytes = 0 THEN 0
    ELSE IF access_tier = "FileShares"
    THEN LET profile == IF workload_profile \in DOMAIN FILE_SHARE_PRICING
                        THEN workload_profile ELSE "moderate"
             pricing_table == FILE_SHARE_PRICING[profile]
             s == IF sku \in DOMAIN pricing_table THEN sku ELSE "Standard_LRS"
         IN  size_bytes * pricing_table[s]
    ELSE LET tier == IF access_tier \in DOMAIN PRICING THEN access_tier ELSE "Hot"
             s == IF sku \in DOMAIN PRICING[tier] THEN sku ELSE "Standard_LRS"
         IN  size_bytes * PRICING[tier][s]

\* the difference taken the wrong way round
calculate_tier_optimization_savings_Swapped(current_tier, recommended_tier, size_bytes, sku, profile) ==
    LET current_cost == estimate_storage_cost(size_bytes, current_tier, sku, profile)
        optimized_cost == estimate_storage_cost(size_bytes, recommended_tier, sku, profile)
    IN  [current_tier |-> current_tier,
         recommended_tier |-> recommended_tier,
         size_bytes |-> size_bytes,
         current_monthly_cost |-> current_cost,
         optimized_monthly_cost |-> optimized_cost,
         monthly_savings |-> optimized_cost - current_cost,
         annual_savings |-> (optimized_cost - current_cost) * 12,
         savings_percent |->
             IF current_cost > 0
             THEN [num |-> (optimized_cost - current_cost) * 100, den |-> current_cost]
             ELSE [num |-> 0, den |-> 1]]

\* savings_percent is the float monthly_savings / current_cost * 100, kept as
\* numerator and denominator
calculate_tier_optimization_savings(current_tier, recommended_tier, size_bytes, sku, profile) ==
    LET current_cost == estimate_storage_cost(size_bytes, current_tier, sku, profile)
        optimized_cost == estimate_storage_cost(size_bytes, recommended_tier, sku, profile)
    IN  [current_tier |-> current_tier,
         recommended_tier |-> recommended_tier,
         size_bytes |-> size_bytes,
         current_monthly_cost |-> current_cost,
         optimized_monthly_cost |-> optimized_cost,
         monthly_savings |-> current_cost - optimized_cost,
         annual_savings |-> (current_cost - optimized_cost) * 12,
         savings_percent |->
             IF current_cost > 0
             THEN [num |-> (current_cost - optimized_cost) * 100, den |-> current_cost]
             ELSE [num |-> 0, den |-> 1]]

\* affected_size_bytes of the Hot -> Cool recommendation is the float
\* hot size * stale_blob_count / max(blob_count, 1): kept as numerator and denominator
analyze_container_cost_optimization(container, cfg, profile) ==
    LET min_size_gb == cfg.cost_analysis.min_size_gb
        stale_blob_count == container.stale_blob_count
        stale_size_bytes == container.stale_size_bytes
        hot_tier == container.access_tier_distribution["Hot"]
        ratio_den == Max(container.blob_count, 1)
        hot_stale_num == hot_tier.size_bytes * stale_blob_count
    IN  IF stale_size_bytes < min_size_gb * GiB THEN <<>>
        ELSE
          (IF hot_tier.count > 0 /\ stale_blob_count > 0 /\ hot_stale_num > 0
           THEN <<[type |-> "tier_optimization", severity |-> "medium",
                   container |-> container.name,
                   current_tier |-> "Hot", recommended_tier |-> "Cool",
                   affected_size_bytes |-> [num |-> hot_stale_num, den |-> ratio_den],
                   affected_blob_count |-> (hot_tier.count * stale_blob_count) \div ratio_den,
                   estimated_savings |-> calculate_tier_optimization_savings(
                       "Hot", "Cool", hot_stale_num \div ratio_den, "Standard_LRS", profile)]>>
           ELSE <<>>)
          \o
          (IF stale_size_bytes > 0
           THEN <<[type |-> "tier_optimization", severity |-> "low",
                   container |-> container.name,
                   current_tier |-> "Cool", recommended_tier |-> "Archive",
                   affected_size_bytes |-> [num |-> stale_size_bytes, den |-> 1],
                   affected_blob_count |-> stale_blob_count,
                   estimated_savings |-> calculate_tier_optimization_savings(
                       "Cool", "Archive", stale_size_bytes, "Standard_LRS", profile)]>>
           ELSE <<>>)

BlobTiers == <<"Hot", "Cool", "Archive">>

\* every byte of the containers counted for every tier
tier_size_AllBytes(containers, tier) ==
    SumSeq([i \in 1..Len(containers) |-> containers[i].total_size_bytes])

\* sum(c['access_tier_distribution'][tier]['size_bytes'] for c in containers)
tier_size(containers, tier) ==
    SumSeq([i \in 1..Len(containers) |->
                containers[i].access_tier_distribution[tier].size_bytes])

analyze_storage_account_costs(acct, containers, file_shares, cfg, profile) ==
    LET total_size_bytes ==
            SumSeq([i \in 1..Len(containers) |-> containers[i].total_size_bytes])
            + SumSeq([i \in 1..Len(file_shares) |-> file_shares[i].usage_bytes])
        sku == acct.sku
        TierSize(tier) == tier_size(containers, tier)
        file_share_size == SumSeq([i \in 1..Len(file_shares) |-> file_shares[i].usage_bytes])
        blob_costs ==
            Flatten([t \in 1..Len(BlobTiers) |->
                IF TierSize(BlobTiers[t]) > 0
                THEN <<[tier |-> BlobTiers[t],
                        size_bytes |-> TierSize(BlobTiers[t]),
                        monthly_cost |-> estimate_storage_cost(
                            TierSize(BlobTiers[t]), BlobTiers[t], sku, profile)]>>
                ELSE <<>>])
        share_costs ==
            IF file_share_size > 0
            THEN <<[tier |-> "FileShares",
                    size_bytes |-> file_share_size,
                    monthly_cost |-> estimate_storage_cost(
                        file_share_size, "FileShares", sku, profile)]>>
            ELSE <<>>
        tier_costs == blob_costs \o share_costs
        total_monthly_cost == SumSeq([i \in 1..Len(tier_costs) |-> tier_costs[i].monthly_cost])
        all_recommendations ==
            Flatten([i \in 1..Len(containers) |->
                        analyze_container_cost_optimization(containers[i], cfg, profile)])
        total_monthly_savings ==
            SumSeq([i \in 1..Len(all_recommendations) |->
                        all_recommendations[i].estimated_savings.monthly_savings])
    IN  [storage_account |-> acct.name,
         total_size_bytes |-> total_size_bytes,
         sku |-> sku,
         workload_profile |-> profile,
         tier_costs |-> tier_costs,
         total_monthly_cost |-> total_monthly_cost,
         optimization_recommendations |-> all_recommendations,
         total_monthly_savings |-> total_monthly_savings]

\* the {} left in 'cost_analysis' when cost_analysis.enabled is false
NoCostAnalysis ==
    [storage_account |-> "None", total_size_bytes |-> 0, sku |-> "None",
     workload_profile |-> "None", tier_costs |-> <<>>, total_monthly_cost |-> 0,
     optimization_recommendations |-> <<>>, total_monthly_savings |-> 0]

(***************************************************************************)
(* The aggregator of StorageAssessment (analyze_results and its helpers)   *)
(***************************************************************************)
TopN == 20
UnknownSeverityRank == 99

\* severity_order.get(severity, 99)
severity_order(sev) ==
    CASE sev = "critical" -> 0
      [] sev = "high" -> 1
      [] sev = "medium" -> 2
      [] sev = "low" -> 3
      [] sev = "info" -> 4
      [] OTHER -> UnknownSeverityRank

\* x.get('estimated_savings', 0): a security entry has no such key
SavingsOf(rec) == IF rec.has_savings THEN rec.estimated_savings ELSE 0

\* the sort key (severity rank, -estimated savings), compared as Python compares tuples
KeyLessSeverityOnly(a, b) == severity_order(a.severity) < severity_order(b.severity)

KeyLess(a, b) ==
    \/ severity_order(a.severity) < severity_order(b.severity)
    \/ /\ severity_order(a.severity) = severity_order(b.severity)
       /\ -SavingsOf(a) < -SavingsOf(b)

\* list.sort is stable: x goes after every element that is not greater than it
RECURSIVE InsertSorted(_, _)
InsertSorted(sorted, x) ==
    IF sorted = <<>> THEN <<x>>
    ELSE IF KeyLess(x, Head(sorted)) THEN <<x>> \o sorted
    ELSE <<Head(sorted)>> \o InsertSorted(Tail(sorted), x)

RECURSIVE SortRecommendations(_)
SortRecommendations(recs) ==
    IF recs = <<>> THEN <<>>
    ELSE InsertSorted(SortRecommendations(SubSeq(recs, 1, Len(recs) - 1)), recs[Len(recs)])

SecurityRecommendation(name, f) ==
    [storage_account |-> name, severity |-> f.severity, title |-> f.finding,
     finding |-> f.finding, impact |-> f.type, category |-> "security",
     has_savings |-> FALSE, estimated_savings |-> 0]

CostRecommendation(name, rec) ==
    [storage_account |-> name, severity |-> rec.severity,
     title |-> "optimize_" \o rec.container \o "_tier",
     finding |-> rec.current_tier \o "_to_" \o rec.recommended_tier,
     impact |-> rec.current_tier \o "_to_" \o rec.recommended_tier,
     category |-> "cost",
     has_savings |-> TRUE,
     estimated_savings |-> rec.estimated_savings.monthly_savings]

\* the findings of an account that _generate_top_recommendations collects
CollectedFindings(a) == a.security_analysis.all_findings

\* the candidates of one account: its findings, then its cost recommendations
AccountRecommendations(a) ==
    LET name == a.storage_account.name
        fs == CollectedFindings(a)
        cs == a.cost_analysis.optimization_recommendations
    IN  [i \in 1..Len(fs) |-> SecurityRecommendation(name, fs[i])]
        \o [i \in 1..Len(cs) |-> CostRecommendation(name, cs[i])]

AllRecommendations(accts) ==
    Flatten([i \in 1..Len(accts) |-> AccountRecommendations(accts[i])])


TruncateTop(recs) == Take(recs, TopN)

generate_top_recommendations(accts) ==
    TruncateTop(SortRecommendations(AllRecommendations(accts)))

\* statistics that leave out the governance findings
calculate_findings_statistics_SecurityOnly(accts) ==
    LET all_findings ==
            Flatten([i \in 1..Len(accts) |-> accts[i].security_analysis.all_findings])
    IN  [total |-> Len(all_findings),
         critical |-> Len(BySeverity(all_findings, "critical")),
         high |-> Len(BySeverity(all_findings, "high")),
         medium |-> Len(BySeverity(all_findings, "medium")),
         low |-> Len(BySeverity(all_findings, "low")),
         info |-> Len(BySeverity(all_findings, "info"))]

calculate_findings_statistics(accts) ==
    LET all_findings ==
            Flatten([i \in 1..Len(accts) |->
                accts[i].security_analysis.all_findings
                \o accts[i].governance_analysis.all_findings])
    IN  [total |-> Len(all_findings),
         critical |-> Len(BySeverity(all_findings, "critical")),
         high |-> Len(BySeverity(all_findings, "high")),
         medium |-> Len(BySeverity(all_findings, "medium")),
         low |-> Len(BySeverity(all_findings, "low")),
         info |-> Len(BySeverity(all_findings, "info"))]

ContainerBytes(a) == SumSeq([i \in 1..Len(a.containers) |-> a.containers[i].total_size_bytes])
ShareBytes(a) == SumSeq([i \in 1..Len(a.file_shares) |-> a.file_shares[i].usage_bytes])

SumOver(accts, Val(_)) == SumSeq([i \in 1..Len(accts) |-> Val(accts[i])])

\* average_security_score is the float sum / len, kept as the pair (sum, len);
\* 0 for an empty list
calculate_statistics(accts) ==
    [total_storage_accounts |-> Len(accts),
     total_subscriptions |->
         Cardinality({accts[i].storage_account.subscription_id : i \in 1..Len(accts)}),
     total_containers |-> SumOver(accts, LAMBDA a : Len(a.containers)),
     total_file_shares |-> SumOver(accts, LAMBDA a : Len(a.file_shares)),
     total_blobs |-> SumOver(accts, LAMBDA a :
         SumSeq([i \in 1..Len(a.containers) |-> a.containers[i].blob_count])),
     total_capacity_bytes |-> SumOver(accts, ContainerBytes) + SumOver(accts, ShareBytes),
     total_stale_size_bytes |-> SumOver(accts, LAMBDA a :
         SumSeq([i \in 1..Len(a.containers) |-> a.containers[i].stale_size_bytes])),
     total_monthly_cost |-> SumOver(accts, LAMBDA a : a.cost_analysis.total_monthly_cost),
     total_monthly_savings |-> SumOver(accts, LAMBDA a : a.cost_analysis.total_monthly_savings),
     average_security_score |->
         IF accts # <<>>
         THEN [sum |-> SumOver(accts, LAMBDA a : a.security_analysis.security_score),
               len |-> Len(accts)]
         ELSE [sum |-> 0, len |-> 1],
     accounts_with_public_access |->
         CountIf(accts, LAMBDA a : a.storage_account.allow_blob_public_access = "True"),
     accounts_without_https_only |->
         CountIf(accts, LAMBDA a : a.storage_account.https_only # "True"),
     accounts_with_https_only |->
         CountIf(accts, LAMBDA a : a.storage_account.https_only = "True"),
     accounts_without_public_access |->
         CountIf(accts, LAMBDA a : a.storage_account.allow_blob_public_access # "True"),
     accounts_with_soft_delete |->
         CountIf(accts, LAMBDA a : BlobProp(a.storage_account, "delete_retention_policy")),
     accounts_without_soft_delete |->
         CountIf(accts, LAMBDA a : ~BlobProp(a.storage_account, "delete_retention_policy")),
     accounts_with_versioning |->
         CountIf(accts, LAMBDA a : BlobProp(a.storage_account, "is_versioning_enabled")),
     accounts_with_tls12 |->
         CountIf(accts, LAMBDA a :
             a.storage_account.min_tls_version \in {"TLS1_2", "TLS1_3"})]

generate_accounts_summary(accts) ==
    [i \in 1..Len(accts) |->
        LET a == accts[i]
        IN  [name |-> a.storage_account.name,
             location |-> a.storage_account.location,
             sku |-> a.storage_account.sku,
             size_bytes |-> ContainerBytes(a) + ShareBytes(a),
             container_count |-> Len(a.containers),
             share_count |-> Len(a.file_shares),
             security_score |-> a.security_analysis.security_score,
             monthly_cost |-> a.cost_analysis.total_monthly_cost,
             potential_savings |-> a.cost_analysis.total_monthly_savings]]

\* a summary whose statistics count one account too many and whose rows stop
\* after the first account
BuildSummaryMiscounted(accts) ==
    [statistics |-> [calculate_statistics(accts) EXCEPT
                        !.total_storage_accounts = IF accts = <<>> THEN 0 ELSE @ + 1],
     findings_statistics |-> calculate_findings_statistics(accts),
     top_recommendations |-> generate_top_recommendations(accts),
     storage_accounts_summary |-> generate_accounts_summary(Take(accts, 1))]

\* the summary dict analyze_results stores in self.results['summary']
BuildSummary(accts) ==
    [statistics |-> calculate_statistics(accts),
     findings_statistics |-> calculate_findings_statistics(accts),
     top_recommendations |-> generate_top_recommendations(accts),
     storage_accounts_summary |-> generate_accounts_summary(accts)]

(***************************************************************************)
(* WorkloadProfileDetector                                                 *)
(***************************************************************************)
ModerateThresholdGB == 500

\* the share names of the model, spelled character by character
ShareNameSpelling ==
    {<<"fslogix-profiles", <<"f", "s", "l", "o", "g", "i", "x", "-", "p", "r", "o", "f", "i", "l", "e", "s">>>>,
     <<"UserProfiles", <<"U", "s", "e", "r", "P", "r", "o", "f", "i", "l", "e", "s">>>>,
     <<"avd-data", <<"a", "v", "d", "-", "d", "a", "t", "a">>>>,
     <<"VDI", <<"V", "D", "I">>>>,
     <<"savdata", <<"s", "a", "v", "d", "a", "t", "a">>>>,
     <<"department", <<"d", "e", "p", "a", "r", "t", "m", "e", "n", "t">>>>,
     <<"archive", <<"a", "r", "c", "h", "i", "v", "e">>>>,
     <<"void", <<"v", "o", "i", "d">>>>,
     <<"data", <<"d", "a", "t", "a">>>>,
     <<"prof", <<"p", "r", "o", "f">>>>}

ShareNamePool == {s[1] : s \in ShareNameSpelling}

Spelling(name) == (CHOOSE s \in ShareNameSpelling : s[1] = name)[2]

\* str.lower()
UpperToLower ==
    [A |-> "a", B |-> "b", C |-> "c", D |-> "d", E |-> "e", F |-> "f", G |-> "g", H |-> "h", I |-> "i", J |-> "j", K |-> "k", L |-> "l", M |-> "m", N |-> "n", O |-> "o", P |-> "p", Q |-> "q", R |-> "r", S |-> "s", T |-> "t", U |-> "u", V |-> "v", W |-> "w", X |-> "x", Y |-> "y", Z |-> "z"]

Lower(chars) ==
    [i \in 1..Len(chars) |->
        IF chars[i] \in DOMAIN UpperToLower THEN UpperToLower[chars[i]] ELSE chars[i]]

fslogix_indicators ==
    {<<"f", "s", "l", "o", "g", "i", "x">>, <<"p", "r", "o", "f", "i", "l", "e">>, <<"u", "s", "e", "r", "p", "r", "o", "f", "i", "l", "e">>, <<"a", "v", "d">>, <<"w", "v", "d">>, <<"v", "d", "i">>, <<"c", "i", "t", "r", "i", "x">>}

\* the names in which matching is done on the name as it is spelled
ShareNamesWithIndicatorCaseSensitive ==
    {n \in ShareNamePool : \E ind \in fslogix_indicators : Contains(Spelling(n), ind)}

\* share names of the model in which one of the fslogix_indicators occurs
\* (any(indicator in share_name.lower() ...))
ShareNamesWithIndicator ==
    {n \in ShareNamePool : \E ind \in fslogix_indicators : Contains(Lower(Spelling(n)), ind)}

\* the capacity test with >= in place of >
detect_workload_profile_from_shares_AtLeast(file_shares) ==
    IF file_shares = <<>> THEN "light"
    ELSE IF \E i \in 1..Len(file_shares) : file_shares[i].name \in ShareNamesWithIndicator
    THEN "heavy"
    ELSE IF SumSeq([i \in 1..Len(file_shares) |-> file_shares[i].usage_bytes])
                >= ModerateThresholdGB * GiB
    THEN "moderate"
    ELSE "light"

detect_workload_profile_from_shares(file_shares) ==
    IF file_shares = <<>> THEN "light"
    ELSE IF \E i \in 1..Len(file_shares) : file_shares[i].name \in ShareNamesWithIndicator
    THEN "heavy"
    ELSE IF SumSeq([i \in 1..Len(file_shares) |-> file_shares[i].usage_bytes])
                > ModerateThresholdGB * GiB
    THEN "moderate"
    ELSE "light"

(***************************************************************************)
(* Configuration: Config._get_default_config and the overrides of main()   *)
(***************************************************************************)
DefaultMaxWorkers == 5
QuickMaxWorkers == 10
DefaultMinSizeGB == 1

\* max_workers |-> 0 stands for a configuration without the key
DefaultConfig ==
    [quick_mode |-> FALSE,
     metrics_enabled |-> TRUE,
     parallel_enabled |-> TRUE,
     max_workers |-> 0,
     workload_profile |-> "moderate",
     formats |-> {"json", "csv", "markdown"},
     cost_analysis |-> [enabled |-> TRUE, min_size_gb |-> DefaultMinSizeGB],
     security |-> [check_public_access |-> TRUE, check_encryption |-> TRUE,
                   check_network_rules |-> TRUE, check_auth_methods |-> TRUE,
                   check_soft_delete |-> TRUE, check_versioning |-> TRUE],
     governance |-> [required_tags |-> <<>>, naming_pattern |-> "None",
                     check_lifecycle_policies |-> TRUE, check_diagnostics |-> TRUE]]

\* main(): the --quick and --pdf-only overrides
ApplyCommandLine(cfg, quick, pdf_only) ==
    LET c1 == IF quick
              THEN [cfg EXCEPT !.quick_mode = TRUE, !.metrics_enabled = FALSE,
                               !.max_workers = QuickMaxWorkers]
              ELSE cfg
    IN  IF pdf_only THEN [c1 EXCEPT !.formats = {"pdf"}] ELSE c1

\* parallel_config.get('max_workers', 5) of collect_data
MaxWorkersOf(cfg) == IF cfg.max_workers = 0 THEN DefaultMaxWorkers ELSE cfg.max_workers

(***************************************************************************)
(* The fleet: the snapshots collect_all returns and what the collectors    *)
(* find in each account                                                    *)
(***************************************************************************)
MaxAccounts == 3

NoBlobProperties ==
    [present |-> FALSE, delete_retention_policy |-> "None",
     container_delete_retention_policy |-> "None", is_versioning_enabled |-> "None",
     change_feed |-> "None", restore_policy |-> "None",
     last_access_time_tracking_policy |-> "None"]

AllBlobProperties ==
    [present |-> TRUE, delete_retention_policy |-> "True",
     container_delete_retention_policy |-> "True", is_versioning_enabled |-> "True",
     change_feed |-> "True", restore_policy |-> "True",
     last_access_time_tracking_policy |-> "True"]

NoNetworkRules ==
    [present |-> FALSE, default_action |-> "None", ip_rules |-> <<>>,
     virtual_network_rules |-> 0]

AllEncrypted == [s \in Range(EncryptionServices) |-> "True"]
NoneEncrypted == [s \in Range(EncryptionServices) |-> "absent"]

\* a snapshot on which no security check finds anything
CompliantAccount(name) ==
    [name |-> name, subscription_id |-> "sub-1", location |-> "eastus",
     sku |-> "Standard_ZRS", secondary_location |-> "None",
     tags |-> <<>>, name_matches |-> TRUE,
     https_only |-> "True", min_tls_version |-> "TLS1_2",
     allow_blob_public_access |-> "False", allow_shared_key_access |-> "False",
     default_to_oauth_authentication |-> "True",
     encryption_key_source |-> "Microsoft.Keyvault",
     encryption_services |-> AllEncrypted,
     network_rule_set |-> [present |-> TRUE, default_action |-> "Deny",
                           ip_rules |-> <<"10.0.0.1">>, virtual_network_rules |-> 1],
     blob_service_properties |-> AllBlobProperties]

\* a snapshot on which every security check finds something
ExposedAccount(name) ==
    [CompliantAccount(name) EXCEPT
        !.sku = "Standard_LRS",
        !.https_only = "False", !.min_tls_version = "TLS1_0",
        !.allow_blob_public_access = "True", !.allow_shared_key_access = "None",
        !.default_to_oauth_authentication = "None",
        !.encryption_key_source = "Microsoft.Storage",
        !.encryption_services = NoneEncrypted,
        !.network_rule_set = [present |-> TRUE, default_action |-> "Allow",
                              ip_rules |-> <<"0.0.0.0/0">>, virtual_network_rules |-> 0],
        !.blob_service_properties = NoBlobProperties]

\* a partly configured snapshot in a second subscription
MixedAccount(name) ==
    [CompliantAccount(name) EXCEPT
        !.subscription_id = "sub-2", !.location = "westeurope",
        !.sku = "Standard_GRS",
        !.min_tls_version = "None",
        !.allow_blob_public_access = "None",
        !.encryption_key_source = "Microsoft.Storage",
        !.blob_service_properties = [AllBlobProperties EXCEPT
            !.is_versioning_enabled = "False", !.change_feed = "None"]]

AccountNames == <<"stprod", "stlogs", "stdata", "stavd", "sttest">>

FleetAccount(i) ==
    CASE i % 3 = 1 -> ExposedAccount(AccountNames[i])
      [] i % 3 = 2 -> MixedAccount(AccountNames[i])
      [] OTHER -> CompliantAccount(AccountNames[i])

TierDist(hot_count, hot_size, cool_count, cool_size) ==
    [t \in {"Hot", "Cool", "Archive", "None"} |->
        CASE t = "Hot" -> [count |-> hot_count, size_bytes |-> hot_size]
          [] t = "Cool" -> [count |-> cool_count, size_bytes |-> cool_size]
          [] OTHER -> [count |-> 0, size_bytes |-> 0]]

\* a container record after analyze_container_blobs was merged into it
Container(name, blob_count, total, stale_count, stale_size, dist) ==
    [name |-> name, blob_count |-> blob_count, total_size_bytes |-> total,
     stale_blob_count |-> stale_count, stale_size_bytes |-> stale_size,
     access_tier_distribution |-> dist]

\* a container record as get_containers leaves it (quick mode skips the analysis)
UnanalyzedContainer(c) ==
    Container(c.name, 0, 0, 0, 0, TierDist(0, 0, 0, 0))

Share(name, usage_bytes) == [name |-> name, usage_bytes |-> usage_bytes]

Metrics(has_activity) == [present |-> TRUE, has_activity |-> has_activity]
NoMetrics == [present |-> FALSE, has_activity |-> "None"]

\* what the collectors find in the account of a name
World(name) ==
    CASE name \in {"stprod", "stavd"} ->
           [containers |-> <<Container("backups", 100, 100 * GiB, 20, 20 * GiB,
                                       TierDist(100, 100 * GiB, 0, 0)),
                             Container("empty", 0, 0, 0, 0, TierDist(0, 0, 0, 0))>>,
            file_shares |-> <<>>,
            metrics |-> Metrics("True")]
      [] name \in {"stlogs", "sttest"} ->
           [containers |-> <<Container("logs", 10, 6 * GiB, 10, 6 * GiB,
                                       TierDist(5, 4 * GiB, 5, 2 * GiB))>>,
            file_shares |-> <<Share("fslogix-profiles", 10 * GiB)>>,
            metrics |-> Metrics("False")]
      [] name = "stmany" ->
           [containers |-> [i \in 1..7 |->
                               IF i = 4
                               THEN Container("c4", 3, GiB, 0, 0, TierDist(3, GiB, 0, 0))
                               ELSE Container(<<"c1", "c2", "c3", "c4", "c5", "c6", "c7">>[i],
                                              0, 0, 0, 0, TierDist(0, 0, 0, 0))],
            file_shares |-> <<>>,
            metrics |-> Metrics("False")]
      [] OTHER ->
           [containers |-> <<>>,
            file_shares |-> <<Share("department", 300 * GiB), Share("archive", 300 * GiB)>>,
            metrics |-> Metrics("True")]

(***************************************************************************)
(* StorageAssessment._process_storage_account                              *)
(***************************************************************************)
collect_container_data(acct, cfg) ==
    LET found == World(acct.name).containers
    IN  IF cfg.quick_mode
        THEN [i \in 1..Len(found) |-> UnanalyzedContainer(found[i])]
        ELSE found

collect_share_data(acct, cfg) == World(acct.name).file_shares

collect_metrics_for_account(acct, cfg) ==
    IF cfg.metrics_enabled THEN World(acct.name).metrics ELSE NoMetrics

\* the task raises when an analyzer raises on the snapshot
TaskRaises(acct) == RedundancyRaises(acct)

process_storage_account(acct, cfg, profile) ==
    LET containers == collect_container_data(acct, cfg)
        file_shares == collect_share_data(acct, cfg)
        metrics == collect_metrics_for_account(acct, cfg)
    IN  [storage_account |-> acct,
         containers |-> containers,
         file_shares |-> file_shares,
         metrics |-> metrics,
         cost_analysis |->
             IF cfg.cost_analysis.enabled
             THEN analyze_storage_account_costs(acct, containers, file_shares, cfg, profile)
             ELSE NoCostAnalysis,
         security_analysis |-> analyze_storage_account_security(acct, cfg),
         governance_analysis |-> analyze_governance(acct, containers, metrics, cfg)]

(***************************************************************************)
(* The run: main(), StorageAssessment.run, collect_data, _process_parallel *)
(* and _process_sequential, analyze_results, generate_reports              *)
(***************************************************************************)
\* the configurations a run is started with
Configurations ==
    { ApplyCommandLine(DefaultConfig, FALSE, FALSE),
      ApplyCommandLine(DefaultConfig, TRUE, FALSE),
      ApplyCommandLine([DefaultConfig EXCEPT !.workload_profile = "auto"], FALSE, TRUE),
      [DefaultConfig EXCEPT !.max_workers = 1],
      [DefaultConfig EXCEPT !.max_workers = 2, !.workload_profile = "auto"],
      [DefaultConfig EXCEPT !.parallel_enabled = FALSE] }

\* no pure-function call is being made
Idle == /\ call = <<>>
        /\ ret = <<>>

Init ==
    /\ config \in Configurations
    /\ pc = "start"
    /\ enumeration = "pending"
    /\ accounts = <<>>
    /\ task = <<>>
    /\ queue = <<>>
    /\ nThreads = 0
    /\ poolSize = 0
    /\ pending = {}
    /\ results = <<>>
    /\ summary = <<>>
    /\ reports = {}
    /\ exitStatus = "running"
    /\ interrupted = FALSE
    /\ startedAfterInterrupt = {}
    /\ cost_workload_profile = config.workload_profile
    /\ detection = <<>>
    /\ Idle

Tasks == 1..Len(accounts)
Running == {i \in Tasks : task[i] = "running"}
Finished == {i \in Tasks : task[i] \in {"done_ok", "done_fail"}}
Succeeded == {i \in Tasks : task[i] = "done_ok"}

\* run(): an exception of collect_all reaches `except Exception` and run returns
\* False, which main() turns into exit status 1
RunAfterEnumerationErrorSwallowed(failing) == [pc |-> "analyze", exitStatus |-> "running"]

RunAfterEnumerationError(failing) == [pc |-> "done", exitStatus |-> "1"]

EnumerationFails ==
    /\ pc = "start"
    /\ \E failing \in {"get_subscriptions", "get_storage_accounts"} :
        /\ enumeration' = failing
        /\ pc' = RunAfterEnumerationError(failing).pc
        /\ exitStatus' = RunAfterEnumerationError(failing).exitStatus
    /\ UNCHANGED <<config, accounts, task, queue, nThreads, poolSize, pending, results,
                   summary, reports, interrupted, startedAfterInterrupt,
                   cost_workload_profile, detection, call, ret>>

\* the executor is built with the max_workers collect_data read
PoolCapacityUnbounded(cfg, n) == n

PoolCapacity(cfg, n) == MaxWorkersOf(cfg)

\* collect_data up to the choice between _process_parallel and _process_sequential
Enumerate ==
    /\ pc = "start"
    /\ enumeration' = "ok"
    /\ \E n \in 0..MaxAccounts :
        /\ accounts' = [i \in 1..n |-> FleetAccount(i)]
        /\ task' = [i \in 1..n |-> "unsubmitted"]
        /\ IF n = 0 THEN pc' = "analyze" /\ poolSize' = poolSize
           ELSE IF config.parallel_enabled /\ n > 1
                THEN pc' = "submit" /\ poolSize' = PoolCapacity(config, n)
                ELSE pc' = "sequential" /\ poolSize' = poolSize
    /\ UNCHANGED <<config, queue, nThreads, pending, results, summary, reports,
                   exitStatus, interrupted, startedAfterInterrupt,
                   cost_workload_profile, detection, call, ret>>

\* executor.submit for the next account: the work item is queued, and a worker
\* thread is started while fewer than max_workers exist
Submit ==
    /\ pc = "submit"
    /\ \E i \in Tasks :
        /\ task[i] = "unsubmitted"
        /\ \A j \in 1..(i - 1) : task[j] # "unsubmitted"
        /\ task' = [task EXCEPT ![i] = "queued"]
        /\ queue' = Append(queue, i)
        /\ nThreads' = IF nThreads < poolSize THEN nThreads + 1 ELSE nThreads
        /\ pc' = IF i = Len(accounts) THEN "collect" ELSE "submit"
    /\ UNCHANGED <<config, enumeration, accounts, poolSize, pending, results, summary, reports,
                   exitStatus, interrupted, startedAfterInterrupt,
                   cost_workload_profile, detection, call, ret>>

\* an idle worker thread takes the oldest work item
Start ==
    /\ pc \in {"submit", "collect", "unwind"}
    /\ queue # <<>>
    /\ Cardinality(Running) < nThreads
    /\ task' = [task EXCEPT ![Head(queue)] = "running"]
    /\ queue' = Tail(queue)
    /\ startedAfterInterrupt' =
           IF interrupted THEN startedAfterInterrupt \cup {Head(queue)}
           ELSE startedAfterInterrupt
    /\ UNCHANGED <<config, enumeration, pc, accounts, nThreads, poolSize, pending, results, summary,
                   reports, exitStatus, interrupted, cost_workload_profile, detection,
                   call, ret>>

\* _process_storage_account returns or raises; the future is done
Finish ==
    /\ pc \in {"submit", "collect", "unwind"}
    /\ \E i \in Running :
       \E outcome \in {"done_ok", "done_fail"} :
        /\ outcome = "done_ok" => ~TaskRaises(accounts[i])
        /\ task' = [task EXCEPT ![i] = outcome]
        /\ pending' = pending \cup {i}
    /\ UNCHANGED <<config, enumeration, pc, accounts, queue, nThreads, poolSize, results, summary,
                   reports, exitStatus, interrupted, startedAfterInterrupt,
                   cost_workload_profile, detection, call, ret>>

\* one turn of the as_completed loop: future.result() is appended or its
\* exception logged; after the last future the with block ends and run goes on
CollectOutcomeAllOrNothing(res, acct, outcome) ==
    IF outcome = "done_ok"
    THEN Append(res, process_storage_account(acct, config, cost_workload_profile))
    ELSE <<>>

\* try: append the result / except Exception: log the failure
CollectOutcome(res, acct, outcome) ==
    IF outcome = "done_ok"
    THEN Append(res, process_storage_account(acct, config, cost_workload_profile))
    ELSE res

\* as_completed is exhausted once every future is done and has been yielded
CollectionOverEarly(i) == pending = {i}

CollectionOver(i) == Finished = Tasks /\ pending = {i}

Collect ==
    /\ pc = "collect"
    /\ \E i \in pending :
        /\ pending' = pending \ {i}
        /\ results' = CollectOutcome(results, accounts[i], task[i])
        /\ pc' = IF CollectionOver(i) THEN "analyze" ELSE "collect"
    /\ UNCHANGED <<config, enumeration, accounts, task, queue, nThreads, poolSize, summary, reports,
                   exitStatus, interrupted, startedAfterInterrupt,
                   cost_workload_profile, detection, call, ret>>

\* one turn of the loop of _process_sequential
ProcessSequential ==
    /\ pc = "sequential"
    /\ \E i \in Tasks :
       \E outcome \in {"done_ok", "done_fail"} :
        /\ task[i] = "unsubmitted"
        /\ \A j \in 1..(i - 1) : task[j] # "unsubmitted"
        /\ outcome = "done_ok" => ~TaskRaises(accounts[i])
        /\ task' = [task EXCEPT ![i] = outcome]
        /\ results' = CollectOutcome(results, accounts[i], outcome)
        /\ pc' = IF i = Len(accounts) THEN "analyze" ELSE "sequential"
    /\ UNCHANGED <<config, enumeration, accounts, queue, nThreads, poolSize, pending, summary, reports,
                   exitStatus, interrupted, startedAfterInterrupt,
                   cost_workload_profile, detection, call, ret>>

\* KeyboardInterrupt in the main thread: it is no Exception, so neither the
\* collection loop nor run() catches it. In _process_parallel it leaves the with
\* block, whose __exit__ is executor.shutdown(wait=True).
Interrupt ==
    /\ pc \in {"submit", "collect", "sequential"}
    /\ interrupted' = TRUE
    /\ IF pc = "sequential"
       THEN pc' = "done" /\ exitStatus' = "130"
       ELSE pc' = "unwind" /\ exitStatus' = exitStatus
    /\ UNCHANGED <<config, enumeration, accounts, task, queue, nThreads, poolSize, pending, results,
                   summary, reports, startedAfterInterrupt, cost_workload_profile,
                   detection, call, ret>>

\* shutdown(wait=True) returns once the queue is drained and every worker is
\* idle; main() catches the KeyboardInterrupt and exits with 130
Unwound ==
    /\ pc = "unwind"
    /\ queue = <<>>
    /\ Running = {}
    /\ pc' = "done"
    /\ exitStatus' = "130"
    /\ UNCHANGED <<config, enumeration, accounts, task, queue, nThreads, poolSize, pending, results,
                   summary, reports, interrupted, startedAfterInterrupt,
                   cost_workload_profile, detection, call, ret>>

AllFileShares(accts) == Flatten([i \in 1..Len(accts) |-> accts[i].file_shares])

\* the "Recalculate costs with new profile" loop
Recalculated(accts, cfg, profile) ==
    [i \in 1..Len(accts) |->
        IF cfg.cost_analysis.enabled
        THEN [accts[i] EXCEPT !.cost_analysis =
                 analyze_storage_account_costs(accts[i].storage_account, accts[i].containers,
                                               accts[i].file_shares, cfg, profile)]
        ELSE accts[i]]

\* _calculate_findings_statistics writes the account name into every finding
\* dict; the lists of the analysis hold the same dicts
TagFinding(f, name) ==
    [type |-> f.type, severity |-> f.severity, resource |-> f.resource,
     finding |-> f.finding, detail |-> f.detail, storage_account |-> name]

TagAnalysis(analysis, name) ==
    LET tagged == [k \in 1..Len(analysis.all_findings) |->
                      TagFinding(analysis.all_findings[k], name)]
    IN  [analysis EXCEPT
            !.all_findings = tagged,
            !.findings_by_severity = [s \in Severities |-> BySeverity(tagged, s)]]

TagFindings(accts) ==
    [i \in 1..Len(accts) |->
        [accts[i] EXCEPT
            !.security_analysis = TagAnalysis(@, accts[i].storage_account.name),
            !.governance_analysis = TagAnalysis(@, accts[i].storage_account.name)]]

AnalyzeResults ==
    /\ pc = "analyze"
    /\ IF config.workload_profile = "auto"
       THEN LET all_file_shares == AllFileShares(results)
                detected_profile == detect_workload_profile_from_shares(all_file_shares)
            IN  /\ detection' = <<[input |-> all_file_shares, profile |-> detected_profile]>>
                /\ cost_workload_profile' = detected_profile
                /\ results' = TagFindings(Recalculated(results, config, detected_profile))
       ELSE /\ UNCHANGED <<detection, cost_workload_profile>>
            /\ results' = TagFindings(results)
    /\ summary' = <<BuildSummary(results')>>
    /\ pc' = "report"
    /\ UNCHANGED <<config, enumeration, accounts, task, queue, nThreads, poolSize, pending, reports,
                   exitStatus, interrupted, startedAfterInterrupt, call, ret>>

ReportOrder == <<"json", "csv", "markdown", "pdf">>

\* the files generate_reports writes when the reporter of `failing` raises
\* ("none": no reporter raises); the PDF step writes the Markdown file it converts
FilesWritten(formats, failing) ==
    LET Before(f) == \A k \in 1..Len(ReportOrder) :
                        ReportOrder[k] = failing =>
                            \E j \in 1..(k - 1) : ReportOrder[j] = f
        wanted == formats \cup (IF "pdf" \in formats THEN {"markdown"} ELSE {})
    IN  {f \in wanted : Before(f)}

\* an exception of the JSON, CSV or Markdown reporter leaves generate_reports;
\* the PDF step has its own try/except
ReportFailureIsFatal(formats, failing) ==
    \/ failing \in {"json", "csv"}
    \/ failing = "markdown" /\ "markdown" \in formats

GenerateReports ==
    /\ pc = "report"
    /\ \E failing \in {"none"} \cup config.formats
                       \cup (IF "pdf" \in config.formats THEN {"markdown"} ELSE {}) :
        /\ reports' = FilesWritten(config.formats, failing)
        /\ exitStatus' = IF ReportFailureIsFatal(config.formats, failing) THEN "1" ELSE "0"
    /\ pc' = "done"
    /\ UNCHANGED <<config, enumeration, accounts, task, queue, nThreads, poolSize, pending, results,
                   summary, interrupted, startedAfterInterrupt, cost_workload_profile,
                   detection, call, ret>>

Next ==
    \/ EnumerationFails
    \/ Enumerate
    \/ Submit
    \/ Start
    \/ Finish
    \/ Collect
    \/ ProcessSequential
    \/ Interrupt
    \/ Unwound
    \/ AnalyzeResults
    \/ GenerateReports

Spec == Init /\ [][Next]_vars

(***************************************************************************)
(* Properties of the run (specification Spec)                              *)
(***************************************************************************)
\* how often the account of task i occurs in the result collection
TimesCollected(i) ==
    CountIf(results, LAMBDA r : r.storage_account.name = accounts[i].name)

CollectionPhaseOver == pc \in {"analyze", "report"} \/ (pc = "done" /\ summary # <<>>)

\* C1 (failure isolation): at every moment the result collection holds exactly
\* one assessment for each task that succeeded and whose future was handed to
\* the collection loop, and none for any other task; so a failing task removes
\* nothing. Once every task is finished and collected the run is in (or past)
\* aggregation, with exactly one assessment per succeeded task.
C1_FailureIsolation ==
    /\ \A i \in Tasks :
          TimesCollected(i) = IF task[i] = "done_ok" /\ i \notin pending THEN 1 ELSE 0
    /\ (Tasks # {} /\ Finished = Tasks /\ pending = {})
          => /\ CollectionPhaseOver
             /\ Len(results) = Cardinality(Succeeded)
    /\ CollectionPhaseOver => Finished = Tasks /\ pending = {}

\* some tasks failed, others succeeded, and the run went on to build the summary
C1_Witness ==
    /\ pc = "report"
    /\ poolSize > 0
    /\ \E i, j \in Tasks : task[i] = "done_fail" /\ task[j] = "done_ok" /\ i < j
    /\ Len(results) = Cardinality(Succeeded)

\* the worker limit the claim names: 10 in quick mode, else the configured
\* value, 5 when none is configured
ClaimedMaxWorkers ==
    IF config.quick_mode THEN 10
    ELSE IF config.max_workers = 0 THEN 5 ELSE config.max_workers

\* C2 (bounded pool): in the parallel phase every account has exactly one task
\* (a queued task is in the work queue exactly once, no other task is in it),
\* after the submit loop no account is left without a task, and the number of
\* tasks running at the same time never exceeds max_workers.
C2_BoundedPool ==
    pc \in {"submit", "collect", "unwind"} =>
        /\ DOMAIN task = 1..Len(accounts)
        /\ \A i \in Tasks :
              CountIf(queue, LAMBDA q : q = i) = IF task[i] = "queued" THEN 1 ELSE 0
        /\ Range(queue) \subseteq Tasks
        /\ pc = "collect" => \A i \in Tasks : task[i] # "unsubmitted"
        /\ poolSize = ClaimedMaxWorkers
        /\ Cardinality(Running) <= ClaimedMaxWorkers

\* the pool is saturated: max_workers tasks run while another one waits
C2_Witness ==
    /\ pc = "collect"
    /\ Cardinality(Running) = ClaimedMaxWorkers
    /\ queue # <<>>

\* C3 (phase ordering): profile detection, the cost re-analysis and the summary
\* happen only when no task is unsubmitted, queued or running and every future
\* was collected; the detection input is the concatenation of the file shares
\* of exactly the successfully processed accounts.
C3_PhaseOrdering ==
    /\ (pc \in {"analyze", "report"} \/ summary # <<>> \/ detection # <<>>)
          => /\ \A i \in Tasks : task[i] \in {"done_ok", "done_fail"}
             /\ queue = <<>>
             /\ pending = {}
    /\ detection # <<>> =>
          /\ detection[1].input =
                Flatten([k \in 1..Len(results) |->
                            World(results[k].storage_account.name).file_shares])
          /\ {results[k].storage_account.name : k \in 1..Len(results)}
                = {accounts[i].name : i \in Succeeded}
          /\ Len(results) = Cardinality(Succeeded)

\* a parallel run with two or more successful accounts whose shares were the
\* input of the detection
C3_Witness ==
    /\ detection # <<>>
    /\ poolSize > 0
    /\ Len(results) >= 2
    /\ Len(detection[1].input) >= 2

\* the assessments of the result collection in the order of the accounts
\* (resource identity) instead of the order of arrival
ResultsByIdentity ==
    Flatten([i \in 1..Len(accounts) |->
                SelectSeq(results, LAMBDA r : r.storage_account.name = accounts[i].name)])

\* C4 (completion-order independence): the summary is the one built from the
\* successful accounts taken in the order of their identity, whatever the
\* order in which the tasks completed.
C4_CompletionOrderIndependence ==
    summary # <<>> => summary[1] = BuildSummary(ResultsByIdentity)

\* C5 (cancellation): after an interrupt in the parallel phase no waiting task
\* is started, and the assessments collected before it are aggregated into a
\* summary.
C5_Cancellation ==
    /\ startedAfterInterrupt = {}
    /\ (pc = "done" /\ interrupted /\ poolSize > 0 /\ results # <<>>) => summary # <<>>

\* the two halves of C5, each of which the run violates
C5_NothingStartedAfterInterrupt == startedAfterInterrupt = {}

C5_PartialResultsAggregated ==
    (pc = "done" /\ interrupted /\ poolSize > 0 /\ results # <<>>) => summary # <<>>

\* C6 (enumeration failure is fatal): when listing the subscriptions or the
\* storage accounts raised, no task exists, no worker was started, nothing was
\* collected, no summary and no report was produced and the run ended with
\* exit status 1.
C6_EnumerationFailureIsFatal ==
    enumeration \in {"get_subscriptions", "get_storage_accounts"} =>
        /\ task = <<>>
        /\ queue = <<>>
        /\ nThreads = 0
        /\ results = <<>>
        /\ summary = <<>>
        /\ reports = {}
        /\ pc = "done"
        /\ exitStatus = "1"

\* the run ended after the listing of storage accounts raised
C6_Witness ==
    /\ enumeration = "get_storage_accounts"
    /\ pc = "done"
    /\ exitStatus = "1"

\* the outcomes (results, summary, report files, exit status) a run that found
\* no storage account can end in
ZeroFoundOutcomes(cfg) ==
    {<<<<>>, <<BuildSummary(<<>>)>>, FilesWritten(cfg.formats, failing),
       IF ReportFailureIsFatal(cfg.formats, failing) THEN "1" ELSE "0">> :
        failing \in {"none", "json", "csv", "markdown", "pdf"}}

\* C7 (all failed is not none found): a finished run that found accounts, all of
\* whose tasks failed, ends in an outcome no run without accounts ends in.
C7_AllFailedDistinguished ==
    (/\ pc = "done"
     /\ ~interrupted
     /\ Len(accounts) >= 1
     /\ \A i \in Tasks : task[i] = "done_fail")
        => <<results, summary, reports, exitStatus>> \notin ZeroFoundOutcomes(config)

\* a run without accounts ends in one of ZeroFoundOutcomes
ZeroFoundOutcomesAreReached ==
    (pc = "done" /\ enumeration = "ok" /\ accounts = <<>>)
        => <<results, summary, reports, exitStatus>> \in ZeroFoundOutcomes(config)

(***************************************************************************)
(* Specifications of the pure functions: Init draws the arguments of one   *)
(* call, the action makes the call. The run itself is not started.         *)
(***************************************************************************)
NotRunning ==
    /\ config = DefaultConfig
    /\ pc = "idle"
    /\ enumeration = "pending"
    /\ accounts = <<>>
    /\ task = <<>>
    /\ queue = <<>>
    /\ nThreads = 0
    /\ poolSize = 0
    /\ pending = {}
    /\ results = <<>>
    /\ summary = <<>>
    /\ reports = {}
    /\ exitStatus = "running"
    /\ interrupted = FALSE
    /\ startedAfterInterrupt = {}
    /\ cost_workload_profile = "moderate"
    /\ detection = <<>>

Returned == ret # <<>>

\* ---- _generate_top_recommendations over the result collections of a fleet
\* the assessments a task produces for the accounts of the fleet, in the
\* standard and in the quick configuration
AssessmentPool ==
    {process_storage_account(FleetAccount(i), cfg, "moderate") :
        i \in 1..MaxAccounts,
        cfg \in {DefaultConfig, ApplyCommandLine(DefaultConfig, TRUE, FALSE)}}

\* result collections hold one assessment per account
ResultCollections ==
    {rs \in UNION {[1..n -> AssessmentPool] : n \in 0..MaxAccounts} :
        \A i, j \in 1..Len(rs) :
            rs[i].storage_account.name = rs[j].storage_account.name => i = j}

InitTop ==
    /\ NotRunning
    /\ call \in {<<[op |-> "generate_top_recommendations", accts |-> rs]>> :
                    rs \in ResultCollections}
    /\ ret = <<>>

CallTopRecommendations ==
    /\ call # <<>>
    /\ call[1].op = "generate_top_recommendations"
    /\ ret = <<>>
    /\ ret' = <<generate_top_recommendations(call[1].accts)>>
    /\ UNCHANGED <<orchVars, call>>

NextTop == CallTopRecommendations

SpecTop == InitTop /\ [][NextTop]_vars

\* the rank the claim gives a severity: critical < high < medium < low < info
ClaimedRank(sev) ==
    CHOOSE k \in 1..5 : <<"critical", "high", "medium", "low", "info">>[k] = sev

\* C8 (ranking): the list has at most 20 entries; of two adjacent entries the
\* first is at least as urgent as the second, and with equal urgency its
\* estimated savings (0 when it has none) are not smaller.
C8_TopRecommendationsRanked ==
    Returned =>
        LET top == ret[1]
        IN  /\ Len(top) <= 20
            /\ \A k \in 1..(Len(top) - 1) :
                  /\ ClaimedRank(top[k].severity) <= ClaimedRank(top[k + 1].severity)
                  /\ ClaimedRank(top[k].severity) = ClaimedRank(top[k + 1].severity)
                        => SavingsOf(top[k]) >= SavingsOf(top[k + 1])

\* more than 20 candidates were cut to 20, and two neighbours of equal severity
\* differ in savings although the smaller one arrived first
C8_Witness ==
    /\ Returned
    /\ Len(AllRecommendations(call[1].accts)) > 20
    /\ Len(ret[1]) = 20
    /\ \E k \in 1..(Len(ret[1]) - 1) :
          /\ ret[1][k].severity = ret[1][k + 1].severity
          /\ SavingsOf(ret[1][k]) > SavingsOf(ret[1][k + 1])
    /\ LET all == AllRecommendations(call[1].accts)
       IN  \E i, j \in 1..Len(all) :
              /\ i < j
              /\ all[i].severity = all[j].severity
              /\ SavingsOf(all[i]) < SavingsOf(all[j])

\* what the claim takes for the candidates of the ranking: every security
\* finding, governance finding and cost recommendation, as (account, title)
ClaimedCandidates(accts) ==
    Flatten([i \in 1..Len(accts) |->
        LET a == accts[i]
            name == a.storage_account.name
            fs == a.security_analysis.all_findings \o a.governance_analysis.all_findings
            cs == a.cost_analysis.optimization_recommendations
        IN  [k \in 1..Len(fs) |-> <<name, fs[k].finding>>]
            \o [k \in 1..Len(cs) |-> <<name, CostRecommendation(name, cs[k]).title>>]])

\* C9 (merge): when there are at most 20 candidates, every security finding,
\* governance finding and cost recommendation of every assessment is in the
\* list exactly as often as the assessments hold it.
C9_AllCandidatesListed ==
    (Returned /\ Len(ClaimedCandidates(call[1].accts)) <= 20) =>
        LET wanted == ClaimedCandidates(call[1].accts)
            listed == [k \in 1..Len(ret[1]) |-> <<ret[1][k].storage_account, ret[1][k].title>>]
        IN  \A w \in 1..Len(wanted) :
                CountIf(listed, LAMBDA x : x = wanted[w])
                    = CountIf(wanted, LAMBDA x : x = wanted[w])

(***************************************************************************)
(* analyze_storage_account_security over account snapshots and check       *)
(* toggles                                                                  *)
(***************************************************************************)
PartlyEncrypted == [AllEncrypted EXCEPT !["queue"] = "False", !["table"] = "absent"]

NetworkRuleSets ==
    {NoNetworkRules,
     [present |-> TRUE, default_action |-> "Deny", ip_rules |-> <<"10.0.0.1">>,
      virtual_network_rules |-> 1],
     [present |-> TRUE, default_action |-> "Deny", ip_rules |-> <<>>,
      virtual_network_rules |-> 0],
     [present |-> TRUE, default_action |-> "Allow", ip_rules |-> <<"0.0.0.0/0", "*">>,
      virtual_network_rules |-> 0]}

BlobPropertySets ==
    {NoBlobProperties, AllBlobProperties,
     [AllBlobProperties EXCEPT !.delete_retention_policy = "False",
                               !.is_versioning_enabled = "None"]}

\* the snapshots get_storage_accounts can return, field by field
AccountSnapshots ==
    {[CompliantAccount("stprod") EXCEPT
        !.allow_blob_public_access = pub, !.https_only = https,
        !.min_tls_version = tls, !.encryption_services = enc,
        !.encryption_key_source = key, !.network_rule_set = net,
        !.allow_shared_key_access = shared, !.default_to_oauth_authentication = oauth,
        !.blob_service_properties = props] :
        pub \in {"True", "None"}, https \in {"True", "False"},
        tls \in {"TLS1_0", "TLS1_2"},
        enc \in {AllEncrypted, NoneEncrypted, PartlyEncrypted},
        key \in {"Microsoft.Storage", "Microsoft.Keyvault"},
        net \in NetworkRuleSets,
        shared \in {"False", "None"}, oauth \in {"True", "None"},
        props \in BlobPropertySets}

\* every combination of the six check toggles of the 'security' section
SecurityToggles ==
    [check_public_access : BOOLEAN, check_encryption : BOOLEAN,
     check_network_rules : BOOLEAN, check_auth_methods : BOOLEAN,
     check_soft_delete : BOOLEAN, check_versioning : BOOLEAN]

InitSecurity ==
    /\ NotRunning
    /\ call \in {<<[op |-> "analyze_storage_account_security", acct |-> a,
                    cfg |-> [DefaultConfig EXCEPT !.security = t]]>> :
                    a \in AccountSnapshots, t \in SecurityToggles}
    /\ ret = <<>>

CallSecurityAnalysis ==
    /\ call # <<>>
    /\ call[1].op = "analyze_storage_account_security"
    /\ ret = <<>>
    /\ ret' = <<analyze_storage_account_security(call[1].acct, call[1].cfg)>>
    /\ UNCHANGED <<orchVars, call>>

NextSecurity == CallSecurityAnalysis

SpecSecurity == InitSecurity /\ [][NextSecurity]_vars

\* the score the claim states, from the findings produced
ClaimedScore(findings) ==
    LET n(sev) == CountIf(findings, LAMBDA f : f.severity = sev)
        raw == 100 - 25 * n("critical") - 15 * n("high") - 5 * n("medium")
    IN  IF raw < 0 THEN 0 ELSE raw

\* C10 (security score): the score is max(0, 100 - 25*critical - 15*high -
\* 5*medium) over the findings produced, lies in 0..100, is unchanged when the
\* low and info findings are taken away, and is 100 when there is no finding.
C10_SecurityScore ==
    Returned =>
        LET r == ret[1]
            urgent == SelectSeq(r.all_findings,
                                LAMBDA f : f.severity \notin {"low", "info"})
        IN  /\ r.security_score = ClaimedScore(r.all_findings)
            /\ r.security_score \in 0..100
            /\ r.security_score = ClaimedScore(urgent)
            /\ r.all_findings = <<>> => r.security_score = 100

\* the deductions exceed 100, so the floor decides, with low and info findings
\* among those produced
C10_Witness ==
    /\ Returned
    /\ ret[1].security_score = 0
    /\ 15 * Len(BySeverity(ret[1].all_findings, "high"))
          + 5 * Len(BySeverity(ret[1].all_findings, "medium")) > 100
    /\ BySeverity(ret[1].all_findings, "low") # <<>>
    /\ BySeverity(ret[1].all_findings, "info") # <<>>

\* a snapshot on which the enabled checks find nothing scores 100
C10_ZeroFindingsWitness ==
    /\ Returned
    /\ ret[1].all_findings = <<>>
    /\ ret[1].security_score = 100
    /\ \E t \in DOMAIN call[1].cfg.security : call[1].cfg.security[t]


\* the account of the scenario: public blob access on, HTTPS not enforced,
\* TLS 1.0, blob soft delete and versioning off; every other setting that
\* costs points is compliant
ScenarioAccount(acct) ==
    /\ acct.allow_blob_public_access = "True"
    /\ acct.https_only = "False"
    /\ acct.min_tls_version = "TLS1_0"
    /\ acct.blob_service_properties.present
    /\ acct.blob_service_properties.delete_retention_policy # "True"
    /\ acct.blob_service_properties.is_versioning_enabled # "True"
    /\ acct.blob_service_properties.container_delete_retention_policy = "True"
    /\ acct.encryption_services = AllEncrypted
    /\ acct.allow_shared_key_access = "False"
    /\ acct.network_rule_set.default_action # "Allow"
    /\ \A k \in 1..Len(acct.network_rule_set.ip_rules) :
          ~IsBroadIpRange(acct.network_rule_set.ip_rules[k])

ScenarioChecksEnabled(cfg) ==
    /\ cfg.security.check_public_access
    /\ cfg.security.check_encryption
    /\ cfg.security.check_soft_delete \/ cfg.security.check_versioning

MaxSizeGB == 3
CostSizes == 0..(MaxSizeGB * GiB)

\* tier and SKU strings a caller can pass, known and unknown ("None": missing)
TierNames == {"Hot", "Cool", "Archive", "FileShares", "Premium", "None"}
SkuNames ==
    {"Standard_LRS", "Standard_GRS", "Standard_RAGRS", "Standard_ZRS", "Standard_GZRS",
     "Standard_RAGZRS", "Premium_LRS", "Premium_ZRS", "Standard_XRS", "None"}
ProfileNames == {"light", "moderate", "heavy", "auto"}

EstimateCalls ==
    {<<[op |-> "estimate_storage_cost", size_bytes |-> n, access_tier |-> t, sku |-> s,
        workload_profile |-> p]>> :
        n \in CostSizes, t \in TierNames, s \in SkuNames, p \in ProfileNames}

CallEstimate ==
    /\ call # <<>>
    /\ call[1].op = "estimate_storage_cost"
    /\ ret = <<>>
    /\ ret' = <<estimate_storage_cost(call[1].size_bytes, call[1].access_tier,
                                      call[1].sku, call[1].workload_profile)>>
    /\ UNCHANGED <<orchVars, call>>


SavingsCalls ==
    {<<[op |-> "calculate_tier_optimization_savings", current_tier |-> c,
        recommended_tier |-> r, size_bytes |-> n, sku |-> s, workload_profile |-> p]>> :
        c \in TierNames, r \in TierNames, n \in CostSizes, s \in SkuNames,
        p \in {"moderate", "heavy"}}

CallSavings ==
    /\ call # <<>>
    /\ call[1].op = "calculate_tier_optimization_savings"
    /\ ret = <<>>
    /\ ret' = <<calculate_tier_optimization_savings(
                    call[1].current_tier, call[1].recommended_tier, call[1].size_bytes,
                    call[1].sku, call[1].workload_profile)>>
    /\ UNCHANGED <<orchVars, call>>


\* container records as analyze_container_blobs builds them from the blobs it
\* lists: Hot and Cool blobs, some of them stale
HalfGiB == GiB \div 2
ContainerSizes == {0, HalfGiB, GiB, 2 * GiB, 3 * GiB}

ContainerSnapshots ==
    {Container("data", hc + cc, hs + cs, sc, ss, TierDist(hc, hs, cc, cs)) :
        <<hc, hs, cc, cs, sc, ss>> \in
            {t \in {0, 2, 10} \X ContainerSizes \X {0, 2} \X ContainerSizes
                   \X {0, 1, 2, 5} \X ContainerSizes :
                /\ t[1] = 0 => t[2] = 0
                /\ t[3] = 0 => t[4] = 0
                /\ t[5] <= t[1] + t[3]
                /\ t[6] <= t[2] + t[4]
                /\ t[5] = 0 => t[6] = 0
                /\ t[5] = t[1] + t[3] => t[6] = t[2] + t[4]}}
    \cup Range(World("stprod").containers)
    \cup Range(World("stlogs").containers)

MinSizes == {1, 2}

ContainerCalls ==
    {<<[op |-> "analyze_container_cost_optimization", container |-> c,
        cfg |-> [DefaultConfig EXCEPT !.cost_analysis.min_size_gb = m]]>> :
        c \in ContainerSnapshots, m \in MinSizes}

CallContainerOptimization ==
    /\ call # <<>>
    /\ call[1].op = "analyze_container_cost_optimization"
    /\ ret = <<>>
    /\ ret' = <<analyze_container_cost_optimization(call[1].container, call[1].cfg,
                                                    "moderate")>>
    /\ UNCHANGED <<orchVars, call>>


\* containers and shares of an account whose costs are analysed
AccountContainers ==
    {Container("empty", 0, 0, 0, 0, TierDist(0, 0, 0, 0)),
     Container("hot", 2, 2 * GiB, 0, 0, TierDist(2, 2 * GiB, 0, 0)),
     Container("cool", 2, GiB, 2, GiB, TierDist(0, 0, 2, GiB)),
     Container("mixed", 4, 3 * GiB, 2, GiB, TierDist(2, 2 * GiB, 2, GiB)),
     [Container("archive", 3, 3 * GiB, 3, 3 * GiB, TierDist(0, 0, 0, 0)) EXCEPT
         !.access_tier_distribution["Archive"] = [count |-> 3, size_bytes |-> 3 * GiB]],
     [Container("untiered", 1, GiB, 0, 0, TierDist(0, 0, 0, 0)) EXCEPT
         !.access_tier_distribution["None"] = [count |-> 1, size_bytes |-> GiB]]}

AccountShares ==
    {<<>>, <<Share("void", 0)>>, <<Share("department", GiB)>>,
     <<Share("department", GiB), Share("fslogix-profiles", HalfGiB)>>}

AccountCostCalls ==
    {<<[op |-> "analyze_storage_account_costs",
        acct |-> [CompliantAccount("stprod") EXCEPT !.sku = s],
        containers |-> cs, file_shares |-> fs, cfg |-> DefaultConfig,
        workload_profile |-> p]>> :
        s \in {"Standard_LRS", "Standard_GZRS", "Premium_LRS", "None"},
        cs \in UNION {[1..n -> AccountContainers] : n \in 0..2},
        fs \in AccountShares,
        p \in {"light", "heavy", "auto"}}

CallAccountCosts ==
    /\ call # <<>>
    /\ call[1].op = "analyze_storage_account_costs"
    /\ ret = <<>>
    /\ ret' = <<analyze_storage_account_costs(call[1].acct, call[1].containers,
                    call[1].file_shares, call[1].cfg, call[1].workload_profile)>>
    /\ UNCHANGED <<orchVars, call>>

InitCost ==
    /\ NotRunning
    /\ call \in EstimateCalls \cup SavingsCalls \cup ContainerCalls \cup AccountCostCalls
    /\ ret = <<>>

NextCost ==
    \/ CallEstimate
    \/ CallSavings
    \/ CallContainerOptimization
    \/ CallAccountCosts

SpecCost == InitCost /\ [][NextCost]_vars

Called(op) == Returned /\ call[1].op = op

\* what the claim takes for the price per gigabyte: the tier is the given one
\* if it is Hot, Cool or Archive and Hot otherwise, the SKU the given one if
\* the tier's table lists it and Standard_LRS otherwise; FileShares is priced
\* from the table of the workload profile
ClaimedPrice(access_tier, sku, workload_profile) ==
    LET table ==
            IF access_tier = "FileShares"
            THEN FILE_SHARE_PRICING[IF workload_profile \in {"light", "moderate", "heavy"}
                                    THEN workload_profile ELSE "moderate"]
            ELSE PRICING[IF access_tier \in {"Hot", "Cool", "Archive"}
                         THEN access_tier ELSE "Hot"]
    IN  table[IF sku \in DOMAIN table THEN sku ELSE "Standard_LRS"]

\* C12 (cost estimate): the estimate is 0 for size 0 and otherwise size times
\* the claimed price, hence never negative, for known and unknown tiers and SKUs.
C12_EstimateStorageCost ==
    Called("estimate_storage_cost") =>
        LET c == call[1]
        IN  /\ ret[1] >= 0
            /\ c.size_bytes = 0 => ret[1] = 0
            /\ c.size_bytes > 0 =>
                  ret[1] = c.size_bytes
                             * ClaimedPrice(c.access_tier, c.sku, c.workload_profile)

\* an Archive estimate for a SKU the Archive table lacks is priced as Standard_LRS
C12_Witness ==
    /\ Called("estimate_storage_cost")
    /\ call[1].access_tier = "Archive"
    /\ call[1].sku = "Standard_ZRS"
    /\ call[1].size_bytes = 2 * GiB
    /\ ret[1] = 2 * GiB * 99


\* the recommended tier is cheaper per gigabyte than the current one, by the
\* Standard_LRS column that every price table has
CheaperPerGB(current_tier, recommended_tier, workload_profile) ==
    ClaimedPrice(recommended_tier, "Standard_LRS", workload_profile)
        < ClaimedPrice(current_tier, "Standard_LRS", workload_profile)

\* C13 (tier savings): for a recommended tier that is cheaper per gigabyte the
\* monthly savings are the current cost minus the optimized cost and are not
\* negative, whatever the SKU and the fallbacks it takes; the percentage is 0
\* when the current cost is 0.
C13_TierSavings ==
    (/\ Called("calculate_tier_optimization_savings")
     /\ CheaperPerGB(call[1].current_tier, call[1].recommended_tier,
                     call[1].workload_profile)) =>
        LET c == call[1]
            r == ret[1]
        IN  /\ r.current_monthly_cost
                  = c.size_bytes * ClaimedPrice(c.current_tier, c.sku, c.workload_profile)
            /\ r.optimized_monthly_cost
                  = c.size_bytes * ClaimedPrice(c.recommended_tier, c.sku, c.workload_profile)
            /\ r.monthly_savings = r.current_monthly_cost - r.optimized_monthly_cost
            /\ r.monthly_savings >= 0
            /\ r.current_monthly_cost = 0 => r.savings_percent.num = 0
            /\ r.savings_percent.den > 0

\* Cool to Archive for a SKU that only the Cool table lists: the Archive cost
\* falls back to Standard_LRS and the savings are positive
C13_Witness ==
    /\ Called("calculate_tier_optimization_savings")
    /\ call[1].current_tier = "Cool"
    /\ call[1].recommended_tier = "Archive"
    /\ call[1].sku = "Standard_GZRS"
    /\ call[1].size_bytes = GiB
    /\ ret[1].monthly_savings = GiB * (2500 - 99)

\* the current cost is 0 and so is the percentage
C13_ZeroCostWitness ==
    /\ Called("calculate_tier_optimization_savings")
    /\ call[1].size_bytes = 0
    /\ ret[1].current_monthly_cost = 0
    /\ ret[1].savings_percent.num = 0


\* C14 (cost breakdown): the total monthly cost is the sum of the monthly
\* costs of the tier entries; there is an entry for a tier exactly when its
\* size is greater than 0, at most one per tier; the FileShares entry holds
\* the bytes of the file shares and nothing else, each blob-tier entry the
\* bytes the containers hold in that tier and nothing else, each priced at
\* its own tier.
C14_CostBreakdown ==
    Called("analyze_storage_account_costs") =>
        LET c == call[1]
            r == ret[1]
            tc == r.tier_costs
            shareBytes == SumSeq([i \in 1..Len(c.file_shares) |-> c.file_shares[i].usage_bytes])
            blobBytes(t) ==
                SumSeq([i \in 1..Len(c.containers) |->
                            c.containers[i].access_tier_distribution[t].size_bytes])
            bytesOf(t) == IF t = "FileShares" THEN shareBytes ELSE blobBytes(t)
        IN  /\ r.total_monthly_cost = SumSeq([i \in 1..Len(tc) |-> tc[i].monthly_cost])
            /\ \A i \in 1..Len(tc) :
                  /\ tc[i].tier \in {"Hot", "Cool", "Archive", "FileShares"}
                  /\ tc[i].size_bytes > 0
                  /\ tc[i].size_bytes = bytesOf(tc[i].tier)
                  /\ tc[i].monthly_cost
                        = tc[i].size_bytes
                            * ClaimedPrice(tc[i].tier, c.acct.sku, c.workload_profile)
                  /\ \A j \in 1..Len(tc) : tc[j].tier = tc[i].tier => i = j
            /\ \A t \in {"Hot", "Cool", "Archive", "FileShares"} :
                  bytesOf(t) > 0 => \E i \in 1..Len(tc) : tc[i].tier = t

\* an account with Hot and Cool blobs and file shares: three entries, and the
\* total is their sum
C14_Witness ==
    /\ Called("analyze_storage_account_costs")
    /\ Len(call[1].containers) = 2
    /\ Len(call[1].file_shares) = 2
    /\ {ret[1].tier_costs[i].tier : i \in 1..Len(ret[1].tier_costs)}
          = {"Hot", "Cool", "FileShares"}
    /\ ret[1].total_monthly_cost > ret[1].tier_costs[1].monthly_cost


\* the Hot to Cool recommendations among those returned
HotToCool(recs) ==
    SelectSeq(recs, LAMBDA r : r.current_tier = "Hot" /\ r.recommended_tier = "Cool")

\* C15 (proportional Hot to Cool): a container with Hot-tier objects and a
\* nonzero stale-object count, whose proportional stale share of the Hot bytes
\* is not below the minimum size, gets one Hot to Cool recommendation, for
\* Hot bytes * stale_blob_count / blob_count.
C15_HotToCoolProposed ==
    LET c == call[1].container
        hot == c.access_tier_distribution["Hot"]
    IN  (/\ Called("analyze_container_cost_optimization")
         /\ hot.count > 0
         /\ c.stale_blob_count > 0
         /\ hot.size_bytes * c.stale_blob_count
               >= call[1].cfg.cost_analysis.min_size_gb * GiB * c.blob_count) =>
            /\ Len(HotToCool(ret[1])) = 1
            /\ HotToCool(ret[1])[1].affected_size_bytes.num * c.blob_count
                  = hot.size_bytes * c.stale_blob_count
                      * HotToCool(ret[1])[1].affected_size_bytes.den

\* C16 (minimum size): every recommendation returned affects at least
\* min_size_gb gigabytes.
C16_MinimumSize ==
    Called("analyze_container_cost_optimization") =>
        \A k \in 1..Len(ret[1]) :
            ret[1][k].affected_size_bytes.num
                >= call[1].cfg.cost_analysis.min_size_gb * GiB
                     * ret[1][k].affected_size_bytes.den

\* the container of the scenario: 100 blobs, all Hot, 100 GB, 20 of them stale
\* with 20 GB: a Hot to Cool recommendation for 20 GB
C15_ScenarioReached ==
    /\ Called("analyze_container_cost_optimization")
    /\ call[1].container.blob_count = 100
    /\ call[1].container.stale_blob_count = 20
    /\ Len(HotToCool(ret[1])) = 1
    /\ HotToCool(ret[1])[1].affected_size_bytes = [num |-> 100 * GiB * 20, den |-> 100]


(***************************************************************************)
(* detect_workload_profile_from_shares called on lists of file shares      *)
(***************************************************************************)
MaxShares == 2

\* usage: nothing, 250 GB, one byte less than 500 GB, 500 GB, one byte more,
\* 600 GB (bytes in the units of GiB)
ShareUsages ==
    {0, 250 * GiB, 500 * GiB - 1, 500 * GiB, 500 * GiB + 1, 600 * GiB}

ShareLists ==
    UNION {[1..n -> {Share(name, usage) : name \in ShareNamePool, usage \in ShareUsages}] :
              n \in 0..MaxShares}

InitDetect ==
    /\ NotRunning
    /\ call \in {<<[op |-> "detect_workload_profile_from_shares", file_shares |-> fs]>> :
                    fs \in ShareLists}
    /\ ret = <<>>

CallDetect ==
    /\ call # <<>>
    /\ call[1].op = "detect_workload_profile_from_shares"
    /\ ret = <<>>
    /\ ret' = <<detect_workload_profile_from_shares(call[1].file_shares)>>
    /\ UNCHANGED <<orchVars, call>>

NextDetect == CallDetect

SpecDetect == InitDetect /\ [][NextDetect]_vars

\* the names of the pool that contain a keyword when case is ignored
\* (fslogix, profile, userprofile, avd, wvd, vdi, citrix), listed by hand
NamesWithKeyword == {"fslogix-profiles", "UserProfiles", "avd-data", "VDI", "savdata"}

\* C17 (workload detection): heavy exactly when some share name contains a
\* keyword, whatever the sizes; otherwise moderate exactly when the usage
\* adds up to more than 500 GB; otherwise light; light for no shares.
C17_WorkloadDetection ==
    Returned =>
        LET fs == call[1].file_shares
            total == SumSeq([i \in 1..Len(fs) |-> fs[i].usage_bytes])
            keyword == \E i \in 1..Len(fs) : fs[i].name \in NamesWithKeyword
        IN  /\ ret[1] \in {"light", "moderate", "heavy"}
            /\ ret[1] = "heavy" <=> keyword
            /\ ret[1] = "moderate" <=> (~keyword /\ total > 500 * GiB)
            /\ fs = <<>> => ret[1] = "light"
            /\ (~keyword /\ total = 500 * GiB) => ret[1] = "light"
            /\ (~keyword /\ total = 600 * GiB) => ret[1] = "moderate"

\* shares without a keyword that add up to exactly 500 GB are light
C17_Witness ==
    /\ Returned
    /\ Len(call[1].file_shares) = 2
    /\ call[1].file_shares[1].usage_bytes = 250 * GiB
    /\ call[1].file_shares[2].usage_bytes = 250 * GiB
    /\ \A i \in 1..2 : call[1].file_shares[i].name \notin NamesWithKeyword
    /\ ret[1] = "light"

\* an upper-case keyword in a small share gives heavy
C17_HeavyWitness ==
    /\ Returned
    /\ Len(call[1].file_shares) = 2
    /\ call[1].file_shares[2].name = "VDI"
    /\ call[1].file_shares[2].usage_bytes = 0
    /\ call[1].file_shares[1].name = "department"
    /\ ret[1] = "heavy"


(***************************************************************************)
(* Properties of analyze_results (specification Spec)                      *)
(***************************************************************************)
\* the cost analysis analyze_results leaves in an assessment: recomputed with
\* the detected profile under 'auto', the collected one otherwise
CostAfterAnalysis(before, after) ==
    IF config.workload_profile = "auto"
    THEN /\ detection' # <<>>
         /\ detection'[1].profile = detect_workload_profile_from_shares(AllFileShares(results))
         /\ config.cost_analysis.enabled =>
               after.cost_analysis =
                   analyze_storage_account_costs(before.storage_account, before.containers,
                                                 before.file_shares, config,
                                                 detection'[1].profile)
         /\ ~config.cost_analysis.enabled => after.cost_analysis = before.cost_analysis
    ELSE after.cost_analysis = before.cost_analysis

\* C18 (cost-only re-analysis): analyze_results leaves the number and order of
\* the assessments and, in each, the snapshot, containers, file shares,
\* metrics, security analysis and governance analysis as the task returned
\* them; the cost analysis is recomputed with the detected profile under
\* 'auto' and left alone otherwise.
C18_CostOnlyReanalysis ==
    [][(pc = "analyze" /\ pc' = "report") =>
          /\ Len(results') = Len(results)
          /\ \A k \in 1..Len(results) :
                /\ results'[k].storage_account = results[k].storage_account
                /\ results'[k].containers = results[k].containers
                /\ results'[k].file_shares = results[k].file_shares
                /\ results'[k].metrics = results[k].metrics
                /\ results'[k].security_analysis = results[k].security_analysis
                /\ results'[k].governance_analysis = results[k].governance_analysis
                /\ CostAfterAnalysis(results[k], results'[k])]_vars

\* the same with the two analyses compared up to the account name that the
\* findings statistics write into each finding
C18_CostOnlyReanalysisUpToTags ==
    [][(pc = "analyze" /\ pc' = "report") =>
          /\ Len(results') = Len(results)
          /\ \A k \in 1..Len(results) :
                /\ results'[k].storage_account = results[k].storage_account
                /\ results'[k].containers = results[k].containers
                /\ results'[k].file_shares = results[k].file_shares
                /\ results'[k].metrics = results[k].metrics
                /\ results'[k].security_analysis =
                      TagAnalysis(results[k].security_analysis, results[k].storage_account.name)
                /\ results'[k].governance_analysis =
                      TagAnalysis(results[k].governance_analysis, results[k].storage_account.name)
                /\ CostAfterAnalysis(results[k], results'[k])]_vars

\* under 'auto' an assessment with file shares got another cost analysis than
\* the task had computed, priced with the detected profile
C18_ScenarioReached ==
    /\ pc = "report"
    /\ config.workload_profile = "auto"
    /\ detection # <<>>
    /\ \E k \in 1..Len(results) :
          /\ results[k].file_shares # <<>>
          /\ results[k].security_analysis.all_findings # <<>>
          /\ results[k].cost_analysis #
                process_storage_account(results[k].storage_account, config, "auto").cost_analysis


(***************************************************************************)
(* Properties of the summary (specification Spec)                          *)
(***************************************************************************)
\* C19 (accounts counted): a summary counts exactly the accounts whose task
\* succeeded in total_storage_accounts, has exactly one row for each of them
\* and none for another, and a run whose collection ended (no interrupt)
\* builds the summary whether or not tasks failed; when it ends with status 0
\* every configured report other than the PDF was written.
C19_SucceededAccountsCounted ==
    /\ summary # <<>> =>
          LET rows == summary[1].storage_accounts_summary
          IN  /\ summary[1].statistics.total_storage_accounts = Cardinality(Succeeded)
              /\ Len(rows) = Cardinality(Succeeded)
              /\ \A i \in Succeeded :
                    Cardinality({k \in 1..Len(rows) : rows[k].name = accounts[i].name}) = 1
              /\ \A k \in 1..Len(rows) : \E i \in Succeeded : rows[k].name = accounts[i].name
    /\ (pc = "done" /\ enumeration = "ok" /\ ~interrupted) =>
          /\ summary # <<>>
          /\ exitStatus = "0" => (config.formats \ {"pdf"}) \subseteq reports

\* a finished run in which one task failed and two succeeded, with its reports
C19_Witness ==
    /\ pc = "done"
    /\ exitStatus = "0"
    /\ reports # {}
    /\ Cardinality(Succeeded) = 2
    /\ \E i \in Tasks : task[i] = "done_fail"
    /\ summary[1].statistics.total_storage_accounts = 2
    /\ Len(summary[1].storage_accounts_summary) = 2

\* a single assessment aggregates to total_storage_accounts = 1
C19_SingleWitness ==
    /\ summary # <<>>
    /\ Len(results) = 1
    /\ Len(accounts) = 1
    /\ summary[1].statistics.total_storage_accounts = 1


(***************************************************************************)
(* _calculate_findings_statistics over the result collections of a fleet   *)
(***************************************************************************)
InitFindings ==
    /\ NotRunning
    /\ call \in {<<[op |-> "calculate_findings_statistics", accts |-> rs]>> :
                    rs \in ResultCollections}
    /\ ret = <<>>

CallFindingsStatistics ==
    /\ call # <<>>
    /\ call[1].op = "calculate_findings_statistics"
    /\ ret = <<>>
    /\ ret' = <<calculate_findings_statistics(call[1].accts)>>
    /\ UNCHANGED <<orchVars, call>>

NextFindings == CallFindingsStatistics

SpecFindings == InitFindings /\ [][NextFindings]_vars

\* the findings of severity sev that the two analyses of an assessment list
FindingsOfSeverity(a, sev) ==
    Len(a.security_analysis.findings_by_severity[sev])
        + Len(a.governance_analysis.findings_by_severity[sev])

\* C20 (findings statistics): total is the sum over the assessments of the
\* total_findings of the security and of the governance analysis; every
\* finding has one of the five severities; each per-severity count is the
\* number of findings of that severity, and the five counts add up to total.
C20_FindingsStatistics ==
    Returned =>
        LET accts == call[1].accts
            st == ret[1]
            Count(sev) == SumSeq([i \in 1..Len(accts) |-> FindingsOfSeverity(accts[i], sev)])
        IN  /\ st.total =
                  SumSeq([i \in 1..Len(accts) |->
                             accts[i].security_analysis.total_findings
                                 + accts[i].governance_analysis.total_findings])
            /\ \A i \in 1..Len(accts) :
                  \A f \in Range(accts[i].security_analysis.all_findings)
                               \cup Range(accts[i].governance_analysis.all_findings) :
                      f.severity \in {"critical", "high", "medium", "low", "info"}
            /\ st.critical = Count("critical")
            /\ st.high = Count("high")
            /\ st.medium = Count("medium")
            /\ st.low = Count("low")
            /\ st.info = Count("info")
            /\ st.critical + st.high + st.medium + st.low + st.info = st.total

\* three assessments with governance findings, two of them with security
\* findings too, of several severities
C20_Witness ==
    /\ Returned
    /\ Len(call[1].accts) = 3
    /\ \A i \in 1..3 : call[1].accts[i].governance_analysis.total_findings > 0
    /\ \E i, j \in 1..3 : /\ i # j
                          /\ call[1].accts[i].security_analysis.total_findings > 0
                          /\ call[1].accts[j].security_analysis.total_findings > 0
    /\ Cardinality({s \in {"critical", "high", "medium", "low", "info"} : ret[1][s] > 0}) >= 3
    /\ ret[1].total > 6


(***************************************************************************)
(* The analyzers of _process_storage_account on sparse snapshots, and the  *)
(* governance rules one by one (specification SpecGovernance)              *)
(***************************************************************************)
\* snapshots as get_storage_accounts builds them when the service reports no
\* sku, no tags, no network rule set, no encryption or no blob properties:
\* 'sku' is None, the other four are empty
SparseSnapshots ==
    {[CompliantAccount("stprod") EXCEPT
        !.sku = sku, !.secondary_location = "None", !.tags = <<>>,
        !.network_rule_set = net, !.encryption_services = enc,
        !.encryption_key_source = IF enc = NoneEncrypted THEN "None" ELSE @,
        !.blob_service_properties = props] :
        sku \in {"None", "Standard_LRS", "Standard_ZRS"},
        net \in {NoNetworkRules, CompliantAccount("stprod").network_rule_set},
        enc \in {NoneEncrypted, AllEncrypted},
        props \in {NoBlobProperties, AllBlobProperties}}

\* the analysis part of _process_storage_account: the three analyzers in
\* turn; an exception of one of them leaves the task
RunAnalyzers(acct, containers, file_shares, metrics, cfg) ==
    IF TaskRaises(acct)
    THEN [raised |-> "TypeError"]
    ELSE [raised |-> "None",
          cost_analysis |->
              analyze_storage_account_costs(acct, containers, file_shares, cfg,
                                            cfg.workload_profile),
          security_analysis |-> analyze_storage_account_security(acct, cfg),
          governance_analysis |-> analyze_governance(acct, containers, metrics, cfg)]

AnalyzerCalls ==
    {[op |-> "run_analyzers", acct |-> a, containers |-> World("stprod").containers,
      file_shares |-> fs, metrics |-> m, cfg |-> DefaultConfig] :
        a \in SparseSnapshots,
        fs \in {<<>>, <<Share("data", GiB)>>},
        m \in {NoMetrics, Metrics("True")}}

CallRunAnalyzers ==
    /\ call # <<>>
    /\ call[1].op = "run_analyzers"
    /\ ret = <<>>
    /\ ret' = <<RunAnalyzers(call[1].acct, call[1].containers, call[1].file_shares,
                             call[1].metrics, call[1].cfg)>>
    /\ UNCHANGED <<orchVars, call>>

\* ---- analyze_tagging
Tag(key, value) == [key |-> key, value |-> value]

\* the 'tags' dict of a snapshot, in insertion order
TagSets ==
    {<<>>,
     <<Tag("env", "prod")>>,
     <<Tag("env", ""), Tag("owner", "ops")>>,
     <<Tag("owner", ""), Tag("env", "")>>,
     <<Tag("project", ""), Tag("cost-center", "42")>>}

RequiredTagLists ==
    {<<>>, <<"env">>, <<"env", "owner">>, <<"cost-center", "env", "owner">>}

TaggingCalls ==
    {[op |-> "analyze_tagging", acct |-> [CompliantAccount("stprod") EXCEPT !.tags = tags],
      required_tags |-> req] :
        tags \in TagSets, req \in RequiredTagLists}

CallTagging ==
    /\ call # <<>>
    /\ call[1].op = "analyze_tagging"
    /\ ret = <<>>
    /\ ret' = <<analyze_tagging(call[1].acct, call[1].required_tags)>>
    /\ UNCHANGED <<orchVars, call>>

\* ---- analyze_redundancy
RedundancyCalls ==
    {[op |-> "analyze_redundancy",
      acct |-> [CompliantAccount("stprod") EXCEPT !.sku = sku, !.secondary_location = sec]] :
        sku \in SkuNamePool, sec \in {"None", "westus"}}

CallRedundancy ==
    /\ call # <<>>
    /\ call[1].op = "analyze_redundancy"
    /\ ret = <<>>
    /\ ~RedundancyRaises(call[1].acct)
    /\ ret' = <<analyze_redundancy(call[1].acct)>>
    /\ UNCHANGED <<orchVars, call>>

\* ---- analyze_orphaned_resources on what the collectors return in each mode
OrphanCalls ==
    {[op |-> "analyze_orphaned_resources", acct |-> CompliantAccount(name), cfg |-> cfg] :
        name \in {"stprod", "stlogs", "stdata", "stmany"},
        cfg \in {DefaultConfig, ApplyCommandLine(DefaultConfig, TRUE, FALSE),
                 [DefaultConfig EXCEPT !.metrics_enabled = FALSE]}}

CallOrphanedResources ==
    /\ call # <<>>
    /\ call[1].op = "analyze_orphaned_resources"
    /\ ret = <<>>
    /\ ret' = <<analyze_orphaned_resources(
                    call[1].acct,
                    collect_container_data(call[1].acct, call[1].cfg),
                    collect_metrics_for_account(call[1].acct, call[1].cfg))>>
    /\ UNCHANGED <<orchVars, call>>

InitGovernance ==
    /\ NotRunning
    /\ call \in {<<c>> : c \in AnalyzerCalls \cup TaggingCalls \cup RedundancyCalls
                                \cup OrphanCalls}
    /\ ret = <<>>

NextGovernance ==
    \/ CallRunAnalyzers
    \/ CallTagging
    \/ CallRedundancy
    \/ CallOrphanedResources

SpecGovernance == InitGovernance /\ [][NextGovernance]_vars

\* C21 (analyzers never raise): on a snapshot whose optional fields are
\* absent or None the three analyzers return their analysis records; none
\* raises.
C21_AnalyzersNeverRaise ==
    Called("run_analyzers") => ret[1].raised = "None"

\* everything but the sku absent: the analyzers return, reporting the absence
C21_AbsenceReported ==
    /\ Called("run_analyzers")
    /\ call[1].acct.sku # "None"
    /\ ~call[1].acct.network_rule_set.present
    /\ ~call[1].acct.blob_service_properties.present
    /\ call[1].acct.encryption_services = NoneEncrypted
    /\ ret[1].raised = "None"
    /\ ret[1].security_analysis.total_findings > 0


(***************************************************************************)
(* Properties of generate_reports (specification Spec)                     *)
(***************************************************************************)
\* C22 (a failing format is skipped): in a run that reached report
\* generation, where at most one reporter fails, at most one of the
\* requested formats is missing from the generated reports and the run ends
\* with the success status.
C22_FailedFormatSkipped ==
    (pc = "done" /\ summary # <<>>) =>
        /\ exitStatus = "0"
        /\ Cardinality(config.formats \ reports) <= 1

\* the PDF step failed in a PDF-only run: nothing else is lost, status 0
C22_PdfSkippedReached ==
    /\ pc = "done"
    /\ summary # <<>>
    /\ config.formats = {"pdf"}
    /\ "pdf" \notin reports
    /\ exitStatus = "0"


\* C23 (tagging rule): analyze_tagging returns one medium finding listing
\* exactly the required tags the snapshot lacks, or none when it lacks none,
\* and one low finding listing exactly the tags with an empty value, or none
\* when there is no such tag, whatever the list of required tags (the empty
\* list included).
C23_TaggingRule ==
    Called("analyze_tagging") =>
        LET tags == call[1].acct.tags
            required == call[1].required_tags
            missing == SelectSeq(required,
                                 LAMBDA t : \A i \in 1..Len(tags) : tags[i].key # t)
            empty == SelectSeq(tags, LAMBDA kv : kv.value = "")
            medium == BySeverity(ret[1], "medium")
            low == BySeverity(ret[1], "low")
        IN  /\ Len(ret[1]) = Len(medium) + Len(low)
            /\ IF missing = <<>> THEN medium = <<>>
               ELSE Len(medium) = 1 /\ medium[1].detail = missing
            /\ IF empty = <<>> THEN low = <<>>
               ELSE /\ Len(low) = 1
                    /\ low[1].detail = [i \in 1..Len(empty) |-> empty[i].key]

\* with required tags configured both findings are produced as claimed
C23_BothFindingsReached ==
    /\ Called("analyze_tagging")
    /\ call[1].required_tags = <<"cost-center", "env", "owner">>
    /\ Len(ret[1]) = 2
    /\ ret[1][1].severity = "medium"
    /\ ret[1][1].detail = <<"cost-center">>
    /\ ret[1][2].severity = "low"
    /\ ret[1][2].detail = <<"owner", "env">>

\* no required tags configured, a tag with an empty value: no finding at all
C23_EmptyRequiredList ==
    /\ Called("analyze_tagging")
    /\ call[1].required_tags = <<>>
    /\ \E i \in 1..Len(call[1].acct.tags) : call[1].acct.tags[i].value = ""
    /\ ret[1] = <<>>


\* the SKUs the service replicates inside one datacenter, and those it
\* replicates to a second region
LocallyRedundantSkus == {"Standard_LRS", "Premium_LRS"}
GeoRedundantSkus == {"Standard_GRS", "Standard_RAGRS", "Standard_GZRS", "Standard_RAGZRS"}

\* C24 (redundancy rule): analyze_redundancy returns an info finding exactly
\* for a locally redundant SKU and a medium finding exactly for a
\* geo-redundant SKU (GRS, RAGRS, GZRS, RAGZRS) without secondary location,
\* and nothing else.
C24_RedundancyRule ==
    Called("analyze_redundancy") =>
        LET a == call[1].acct
            info == BySeverity(ret[1], "info")
            medium == BySeverity(ret[1], "medium")
        IN  /\ Len(ret[1]) = Len(info) + Len(medium)
            /\ Len(info) = (IF a.sku \in LocallyRedundantSkus THEN 1 ELSE 0)
            /\ Len(medium) =
                  (IF a.sku \in GeoRedundantSkus /\ a.secondary_location = "None"
                   THEN 1 ELSE 0)

\* GRS without secondary location gets the medium finding, LRS the info one
C24_GrsReached ==
    /\ Called("analyze_redundancy")
    /\ call[1].acct.sku = "Standard_RAGRS"
    /\ call[1].acct.secondary_location = "None"
    /\ Len(ret[1]) = 1
    /\ ret[1][1].severity = "medium"

\* GZRS without secondary location gets nothing
C24_GzrsReached ==
    /\ Called("analyze_redundancy")
    /\ call[1].acct.sku \in {"Standard_GZRS", "Standard_RAGZRS"}
    /\ call[1].acct.secondary_location = "None"
    /\ ret[1] = <<>>


\* the objects an account really holds
RealBlobs(name) ==
    SumSeq([i \in 1..Len(World(name).containers) |-> World(name).containers[i].blob_count])

WithText(findings, text) == SelectSeq(findings, LAMBDA f : f.finding = text)

\* C25 (orphan rule): in every mode the 'contains no blobs' finding is given
\* only to an account that holds no object, the 'no transaction activity'
\* finding only to an account that holds objects and whose metrics do not
\* report activity; the two are never given together, and the
\* empty-container finding names at most 5 containers.
C25_OrphanRule ==
    Called("analyze_orphaned_resources") =>
        LET name == call[1].acct.name
            metrics == collect_metrics_for_account(call[1].acct, call[1].cfg)
            no_blobs == WithText(ret[1], "contains_no_blobs")
            no_activity == WithText(ret[1], "no_transaction_activity")
            empty == WithText(ret[1], "empty_containers_found")
        IN  /\ no_blobs # <<>> => RealBlobs(name) = 0
            /\ no_activity # <<>> =>
                  /\ RealBlobs(name) > 0
                  /\ ~(metrics.present /\ metrics.has_activity = "True")
            /\ no_blobs = <<>> \/ no_activity = <<>>
            /\ \A i \in 1..Len(empty) : Len(empty[i].detail) <= 5

\* quick mode: an account that holds 100 blobs is reported to contain none
C25_QuickModeReached ==
    /\ Called("analyze_orphaned_resources")
    /\ call[1].cfg.quick_mode
    /\ call[1].acct.name = "stprod"
    /\ RealBlobs("stprod") = 100
    /\ WithText(ret[1], "contains_no_blobs") # <<>>

\* standard mode: six empty containers, five of them named; blobs without
\* activity reported
C25_StandardModeReached ==
    /\ Called("analyze_orphaned_resources")
    /\ ~call[1].cfg.quick_mode
    /\ call[1].acct.name = "stmany"
    /\ WithText(ret[1], "no_transaction_activity") # <<>>
    /\ WithText(ret[1], "empty_containers_found")[1].detail = <<"c1", "c2", "c3", "c5", "c6">>


(***************************************************************************)
(* Write-once results (specification Spec)                                 *)
(***************************************************************************)
\* C26 (write-once results): an assessment that is in the result collection
\* stays there, at its place, with every field and every finding as the task
\* returned it, in every later step of the run.
C26_WriteOnceResults ==
    [][\A k \in 1..Len(results) :
          /\ k <= Len(results')
          /\ results'[k] = results[k]]_vars

\* the same for the steps of the collection phase and of report generation
C26_WriteOnceOutsideAnalysis ==
    [][pc # "analyze" =>
          \A k \in 1..Len(results) :
              /\ k <= Len(results')
              /\ results'[k] = results[k]]_vars

\* after analyze_results a finding of a collected assessment carries the
\* account name it did not carry when the task returned it
C26_TaggedReached ==
    /\ pc = "report"
    /\ config.workload_profile # "auto"
    /\ \E k \in 1..Len(results) :
          /\ results[k].security_analysis.all_findings # <<>>
          /\ results[k].security_analysis #
                process_storage_account(results[k].storage_account, config,
                                        cost_workload_profile).security_analysis


C27_ArchiveReached ==
    /\ Called("analyze_storage_account_costs")
    /\ Len(call[1].containers) = 1
    /\ call[1].containers[1].name = "archive"
    /\ call[1].file_shares = <<>>
    /\ ret[1].total_monthly_cost > 0
    /\ ret[1].total_monthly_savings > ret[1].total_monthly_cost

\* stale data in the Hot and Cool tiers: positive savings below the cost
C27_MixedReached ==
    /\ Called("analyze_storage_account_costs")
    /\ Len(call[1].containers) = 1
    /\ call[1].containers[1].name = "mixed"
    /\ ret[1].total_monthly_savings > 0
    /\ ret[1].total_monthly_savings < ret[1].total_monthly_cost


\* C28 (every byte priced once): the size_bytes of the tier_costs entries add
\* up to the total_size_bytes of the cost analysis.
C28_EveryBytePriced ==
    Called("analyze_storage_account_costs") =>
        SumSeq([i \in 1..Len(ret[1].tier_costs) |-> ret[1].tier_costs[i].size_bytes])
            = ret[1].total_size_bytes

\* a blob without access tier is counted in the total and priced in no entry
C28_UntieredReached ==
    /\ Called("analyze_storage_account_costs")
    /\ Len(call[1].containers) = 1
    /\ call[1].containers[1].name = "untiered"
    /\ call[1].file_shares = <<>>
    /\ ret[1].total_size_bytes = GiB
    /\ ret[1].tier_costs = <<>>
    /\ ret[1].total_monthly_cost = 0

\* blobs in Hot and Cool and file shares: the entries add up to the total
C28_TieredReached ==
    /\ Called("analyze_storage_account_costs")
    /\ Len(call[1].containers) = 2
    /\ call[1].containers[1].name = "mixed"
    /\ call[1].containers[2].name = "archive"
    /\ Len(call[1].file_shares) = 2
    /\ Len(ret[1].tier_costs) = 4
    /\ SumSeq([i \in 1..4 |-> ret[1].tier_costs[i].size_bytes]) = ret[1].total_size_bytes


(***************************************************************************)
(* Properties of the security check toggles (specification SpecSecurity)   *)
(***************************************************************************)
OfTypes(findings, types) == SelectSeq(findings, LAMBDA f : f.type \in types)

\* C29 (independent toggles): a security check that is switched off produces
\* none of its findings: no versioning finding when check_versioning is
\* false and no soft-delete finding when check_soft_delete is false, whatever
\* the other toggle says, and likewise for the public-access, encryption,
\* network and authentication checks.
C29_TogglesIndependent ==
    Returned =>
        LET sc == call[1].cfg.security
            fs == ret[1].all_findings
        IN  /\ ~sc.check_versioning => WithText(fs, "versioning_disabled") = <<>>
            /\ ~sc.check_soft_delete =>
                  /\ WithText(fs, "blob_soft_delete_disabled") = <<>>
                  /\ WithText(fs, "container_soft_delete_disabled") = <<>>
            /\ ~sc.check_public_access => OfTypes(fs, {"public_access"}) = <<>>
            /\ ~sc.check_encryption =>
                  OfTypes(fs, {"encryption_in_transit", "tls_version", "encryption_at_rest",
                               "encryption_key_management"}) = <<>>
            /\ ~sc.check_network_rules => OfTypes(fs, {"network_access"}) = <<>>
            /\ ~sc.check_auth_methods => OfTypes(fs, {"authentication"}) = <<>>

\* versioning check off, soft-delete check on: the versioning finding is
\* produced all the same
C29_VersioningReached ==
    /\ Returned
    /\ ~call[1].cfg.security.check_versioning
    /\ call[1].cfg.security.check_soft_delete
    /\ WithText(ret[1].all_findings, "versioning_disabled") # <<>>

\* both checks off: no data-protection finding
C29_BothOffReached ==
    /\ Returned
    /\ ~call[1].cfg.security.check_versioning
    /\ ~call[1].cfg.security.check_soft_delete
    /\ ~call[1].acct.blob_service_properties.present
    /\ call[1].cfg.security.check_public_access
    /\ OfTypes(ret[1].all_findings, {"data_protection"}) = <<>>
    /\ ret[1].all_findings # <<>>


(***************************************************************************)
(* Fleet statistics against the findings (specification Spec)              *)
(***************************************************************************)
\* the assessments that carry a medium tls_version finding
FlaggedForTls(accts) ==
    {k \in 1..Len(accts) :
        \E f \in Range(accts[k].security_analysis.all_findings) :
            f.type = "tls_version" /\ f.severity = "medium"}

\* C30 (TLS statistics agree with the findings): with the encryption check
\* enabled, every assessment of a summarised run either satisfies the test
\* that counts it in accounts_with_tls12 or carries a medium tls_version
\* finding, never both and never neither, so accounts_with_tls12 is the
\* number of assessments without that finding.
C30_TlsStatisticsAgree ==
    (summary # <<>> /\ config.security.check_encryption) =>
        /\ \A k \in 1..Len(results) :
              (results[k].storage_account.min_tls_version \in {"TLS1_2", "TLS1_3"})
                  # (k \in FlaggedForTls(results))
        /\ summary[1].statistics.accounts_with_tls12
              = Len(results) - Cardinality(FlaggedForTls(results))

\* an account without minimum TLS version was assessed: not counted, no finding
C30_AbsentTlsReached ==
    /\ summary # <<>>
    /\ Len(results) = 2
    /\ \E k \in 1..2 : /\ results[k].storage_account.min_tls_version = "None"
                       /\ k \notin FlaggedForTls(results)
    /\ \E k \in 1..2 : k \in FlaggedForTls(results)
    /\ summary[1].statistics.accounts_with_tls12 = 0

\* accounts with TLS 1.0 and with TLS 1.2 only: the statistics agree
C30_PresentTlsReached ==
    /\ summary # <<>>
    /\ Len(results) = 2
    /\ \A k \in 1..2 : results[k].storage_account.min_tls_version # "None"
    /\ Cardinality(FlaggedForTls(results)) = 1
    /\ summary[1].statistics.accounts_with_tls12 = 1

=============================================================================
